---- MODULE Spec2Model ----
(***************************************************************************)
(* Model of the MSSQL -> PostgreSQL migration tool: src/src/main.py, the   *)
(* copy of its data loop and the control surface in src/src/api.py, the    *)
(* validator of src/src/validation.py and the migration tracker of         *)
(* src/src/migration_tracker.py.                                           *)
(*                                                                         *)
(* Identifiers are modelled as sequences of one-character strings, so that *)
(* str.replace, str.split, str.join and str.lower are computed character   *)
(* by character as Python computes them; the characters are those of       *)
(* Latin-1 (U+0001 to U+00FF).  A Python dict is a function                *)
(* whose DOMAIN is the set of its keys, or, where the order of insertion   *)
(* matters, the list of its items.                                         *)
(***************************************************************************)
EXTENDS Integers, Sequences, FiniteSets, TLC

VARIABLES
    TRANSLATION_DICT,   \* main.TRANSLATION_DICT, the global dictionary of a run
    identifier,         \* argument of translate_identifier
    translated,         \* translate_identifier(identifier)
    retranslated,       \* translate_identifier(translated)
    tr_pc,              \* "input" -> "translated" -> "retranslated"
    fk_rows,            \* the foreign-key rows read from the source catalog
    dependencies,       \* metadata['dependencies']: child -> list of parents
    all_tables,         \* migratable_tables, the list handed to topological_sort
    sorted_tables,      \* the list topological_sort returns
    cycle_warning,      \* whether topological_sort logged the cycle warning
    ts_pc,              \* "catalog" -> "read" -> "sorted"
    table_columns,      \* COLUMN_NAME of data['columns'], in catalog order
    col_mode,           \* "cli": main() runs the phases; "api": run_migration()
    created_columns,    \* column names of the CREATE TABLE statement
    insert_columns,     \* column names of the INSERT statement
    constraint_columns, \* get_final_column_name of every column
    col_pc,             \* "metadata" -> "created" -> "loaded" -> "done"
    run_mode,           \* "cli": main() runs the phases; "api": run_migration()
    run_pc,             \* the phase of the run, "done" or "failed"
    autocommit,         \* pg_conn.autocommit
    tables_metadata,    \* metadata['tables'], in dict order: per table its
                        \* source batches, constraints, indexes, identity columns
    data_order,         \* sorted_tables, as positions in tables_metadata
    table_idx,          \* position of the table the current loop is at
    batches_sent,       \* batches of the current table handed to execute_values
    pending_rows,       \* per table: batches written in the open transaction
    committed_rows,     \* per table: batches committed on the target
    commit_count,       \* per table: commits issued after its transfer
    stmt_log,           \* the statements executed on the target, in order
    stmt_pos,           \* position in the statements of migrate_constraints_and_indexes
    last_stmt_ok,       \* whether the last constraint statement succeeded
    last_stmt_rollback, \* whether ROLLBACK was executed after that statement
    error_logged,       \* whether migrate_constraints_and_indexes logged a failure
    failed_phase,       \* the phase whose exception ended the run, or "none"
    failed_table,       \* position in sorted_tables of the table that failed, or 0
    \* translate_tsql_to_postgres
    definition,         \* the T-SQL view definition
    all_names_map,      \* items <<original key, translated key>> of the name map
    pg_definition,      \* the translated definition
    tsql_pc,
    \* migrate_views
    views_metadata,     \* the view keys of the Schema Model, in dict order
    views_to_migrate,   \* the views the current pass tries
    remaining_views,    \* the views that failed in the current pass
    view_pos,           \* position of the inner loop in views_to_migrate
    attempt,            \* the loop variable of the outer loop
    created_views,
    view_errors,        \* the entries of view_errors.json
    last_error,         \* per view, the error of its last CREATE VIEW, or "none"
    views_pc,
    reported_outcome,   \* what the caller reports at the end of the run
    \* DataValidator
    has_mssql_conn,     \* whether the validator was given a source connection
    has_pg_conn,        \* whether the validator was given a target connection
    validated_tables,   \* the tables of both catalogs the checks read
    issues,             \* DataValidator.issues
    row_count_results,  \* DataValidator.row_count_results
    returned_counts,    \* the map the last row-count comparison returned
    recorded_issues,    \* every issue a check has appended, in order
    added_issues,       \* the issues the last check appended
    last_check,         \* the method called last, or "none"
    checks_done,        \* how many checks were called on the validator
    report_issues,      \* the issues generate_report read
    val_pc,             \* "idle", "checking" or "reported"
    \* the control surface of api.py
    migration_state,    \* migration_state['status']
    requests,           \* the requests received, each with the point its handler is at
    migration_threads,  \* the worker threads started, each with the point it is
                        \* at and the status its finally clause has read
    \* the sequence of an identity column
    identity_values,    \* the values the identity column holds on the target
    sequence,           \* last_value and is_called of the column's sequence
    setval_failed,      \* whether the setval statement raised
    generated_value,    \* the value the next INSERT without a key generated, or 0
    seq_pc,             \* "idle", "loaded", "updated" or "inserted"
    \* MigrationTracker
    migration_history,  \* the rows of the tracking table, in insertion order
    executions,         \* the calls of record_execution that returned
    record_raised,      \* whether the last record_execution raised
    all_scripts,        \* the argument of get_pending_scripts, once it returned
    pending_scripts,    \* what get_pending_scripts returned
    trk_pc,             \* "idle", "ready", "recorded" or "pending_returned"
    \* the column definition of migrate_tables_structure
    column_row,         \* the catalog row of the column
    pg_type,            \* the PostgreSQL type of the column
    is_nullable,        \* "NULL" or "NOT NULL"
    default_val,        \* the DEFAULT clause of the column, or the empty string
    def_pc,             \* "idle", "read" or "defined"
    \* a constraint declared on one column of a table
    con_columns,        \* the ordered source columns of the table
    declared_on,        \* the position of the column the constraint is declared on
    con_definition,     \* the column name the Schema Model holds for the constraint
    con_created,        \* the final names table creation gave the columns
    con_final,          \* the column name of the statement that adds the constraint
    con_pc,             \* "idle", "source", "metadata", "created" or "added"
    \* the Schema Model of a run of main
    source_tables,      \* the base tables of the source schema, with their columns
    TABLES_TO_MIGRATE,  \* the tables of the tables file, or none
    metadata_tables,    \* metadata['tables'], in dictionary order
    returned_tables,    \* metadata['tables'] as get_mssql_metadata returned it
    meta_pc             \* "idle", "catalog", "returned", "filtered" or "structured"

trVars == <<identifier, translated, retranslated, tr_pc>>
tsVars == <<fk_rows, dependencies, all_tables, sorted_tables, cycle_warning, ts_pc>>
colVars == <<table_columns, col_mode, created_columns, insert_columns,
             constraint_columns, col_pc>>
\* what the handling of one constraint statement leaves behind
stmtOutcome == <<last_stmt_ok, last_stmt_rollback, error_logged>>
runVars == <<run_mode, run_pc, autocommit, tables_metadata, data_order, table_idx,
             batches_sent, pending_rows, committed_rows, commit_count, stmt_log,
             stmt_pos, stmtOutcome, failed_phase, failed_table>>
tsqlVars == <<definition, all_names_map, pg_definition, tsql_pc>>
viewVars == <<views_metadata, views_to_migrate, remaining_views, view_pos, attempt,
              created_views, view_errors, last_error, views_pc, reported_outcome>>
valVars == <<has_mssql_conn, has_pg_conn, validated_tables, issues,
             row_count_results, returned_counts, recorded_issues,
             added_issues, last_check, checks_done, report_issues, val_pc>>
apiVars == <<migration_state, requests, migration_threads>>
seqVars == <<identity_values, sequence, setval_failed, generated_value,
             seq_pc>>
trkVars == <<migration_history, executions, record_raised, all_scripts,
             pending_scripts, trk_pc>>
defVars == <<column_row, pg_type, is_nullable, default_val, def_pc>>
conVars == <<con_columns, declared_on, con_definition, con_created, con_final,
             con_pc>>
metaVars == <<source_tables, TABLES_TO_MIGRATE, metadata_tables,
              returned_tables, meta_pc>>
vars == <<TRANSLATION_DICT, trVars, tsVars, colVars, runVars, tsqlVars, viewVars,
          valVars, apiVars, seqVars, trkVars, defVars, conVars, metaVars>>

\* what the actions of one component leave alone
notTr == <<tsVars, colVars, runVars, tsqlVars, viewVars, valVars, apiVars,
           seqVars, trkVars, defVars, conVars, metaVars>>
notTs == <<TRANSLATION_DICT, trVars, colVars, runVars, tsqlVars, viewVars,
           valVars, apiVars, seqVars, trkVars, defVars, conVars, metaVars>>
notCol == <<TRANSLATION_DICT, trVars, tsVars, runVars, tsqlVars, viewVars,
            valVars, apiVars, seqVars, trkVars, defVars, conVars, metaVars>>
notRun == <<TRANSLATION_DICT, trVars, tsVars, colVars, tsqlVars, viewVars,
            valVars, apiVars, seqVars, trkVars, defVars, conVars, metaVars>>
notTsql == <<TRANSLATION_DICT, trVars, tsVars, colVars, runVars, viewVars,
             valVars, apiVars, seqVars, trkVars, defVars, conVars, metaVars>>
notView == <<TRANSLATION_DICT, trVars, tsVars, colVars, runVars, tsqlVars,
             valVars, apiVars, seqVars, trkVars, defVars, conVars, metaVars>>
notVal == <<TRANSLATION_DICT, trVars, tsVars, colVars, runVars, tsqlVars,
             viewVars, apiVars, seqVars, trkVars, defVars, conVars, metaVars>>
notApi == <<TRANSLATION_DICT, trVars, tsVars, colVars, runVars, tsqlVars,
             viewVars, valVars, seqVars, trkVars, defVars, conVars, metaVars>>
notSeq == <<TRANSLATION_DICT, trVars, tsVars, colVars, runVars, tsqlVars,
             viewVars, valVars, apiVars, trkVars, defVars, conVars, metaVars>>
notTrk == <<TRANSLATION_DICT, trVars, tsVars, colVars, runVars, tsqlVars,
             viewVars, valVars, apiVars, seqVars, defVars, conVars, metaVars>>
notDef == <<TRANSLATION_DICT, trVars, tsVars, colVars, runVars, tsqlVars,
             viewVars, valVars, apiVars, seqVars, trkVars, conVars, metaVars>>
notCon == <<TRANSLATION_DICT, trVars, tsVars, colVars, runVars, tsqlVars,
             viewVars, valVars, apiVars, seqVars, trkVars, defVars, metaVars>>
notMeta == <<TRANSLATION_DICT, trVars, tsVars, colVars, runVars, tsqlVars,
              viewVars, valVars, apiVars, seqVars, trkVars, defVars, conVars>>

(***************************************************************************)
(* Each specification below runs one component; the variables of the       *)
(* components it does not run stay at these values.                        *)
(***************************************************************************)
\* the variables of the dependency resolver, when it is not running
TsIdle ==
    /\ fk_rows = <<>>
    /\ dependencies = <<>>
    /\ all_tables = <<>>
    /\ sorted_tables = <<>>
    /\ cycle_warning = FALSE
    /\ ts_pc = "idle"

\* the variables of the column naming, when it is not running
ColIdle ==
    /\ table_columns = <<>>
    /\ col_mode = "cli"
    /\ created_columns = <<>>
    /\ insert_columns = <<>>
    /\ constraint_columns = <<>>
    /\ col_pc = "idle"

\* the variables of a migration run, when none is running
RunIdle ==
    /\ run_mode = "cli"
    /\ run_pc = "idle"
    /\ autocommit = TRUE
    /\ tables_metadata = <<>>
    /\ data_order = <<>>
    /\ table_idx = 0
    /\ batches_sent = 0
    /\ pending_rows = <<>>
    /\ committed_rows = <<>>
    /\ commit_count = <<>>
    /\ stmt_log = <<>>
    /\ stmt_pos = 0
    /\ last_stmt_ok = TRUE
    /\ last_stmt_rollback = FALSE
    /\ error_logged = FALSE
    /\ failed_phase = "none"
    /\ failed_table = 0

\* the variables of migrate_views, when it is not running
ViewIdle ==
    /\ views_metadata = <<>>
    /\ views_to_migrate = <<>>
    /\ remaining_views = <<>>
    /\ view_pos = 0
    /\ attempt = 0
    /\ created_views = {}
    /\ view_errors = <<>>
    /\ last_error = <<>>
    /\ views_pc = "idle"
    /\ reported_outcome = "none"

\* the variables of the view translator, when it is not running
TsqlIdle ==
    /\ definition = <<>>
    /\ all_names_map = <<>>
    /\ pg_definition = <<>>
    /\ tsql_pc = "idle"

\* the variables of the validator, when it is not running
ValIdle ==
    /\ has_mssql_conn = FALSE
    /\ has_pg_conn = FALSE
    /\ validated_tables = <<>>
    /\ issues = <<>>
    /\ row_count_results = <<>>
    /\ returned_counts = {}
    /\ recorded_issues = <<>>
    /\ added_issues = <<>>
    /\ last_check = "none"
    /\ checks_done = 0
    /\ report_issues = <<>>
    /\ val_pc = "idle"

\* the variables of the control surface, when it is not running
ApiIdle ==
    /\ migration_state = "idle"
    /\ requests = <<>>
    /\ migration_threads = <<>>

\* the variables of the identity sequence, when it is not running
SeqIdle ==
    /\ identity_values = {}
    /\ sequence = [last_value |-> 1, is_called |-> FALSE]
    /\ setval_failed = FALSE
    /\ generated_value = 0
    /\ seq_pc = "idle"

\* the variables of the migration tracker, when it is not running
TrkIdle ==
    /\ migration_history = <<>>
    /\ executions = <<>>
    /\ record_raised = FALSE
    /\ all_scripts = <<>>
    /\ pending_scripts = <<>>
    /\ trk_pc = "idle"

\* the variables of the column definition, when it is not running
DefIdle ==
    /\ column_row = <<>>
    /\ pg_type = <<>>
    /\ is_nullable = ""
    /\ default_val = <<>>
    /\ def_pc = "idle"

\* the variables of the constraint resolution, when it is not running
ConIdle ==
    /\ con_columns = <<>>
    /\ declared_on = 0
    /\ con_definition = <<>>
    /\ con_created = <<>>
    /\ con_final = <<>>
    /\ con_pc = "idle"

\* the variables of the Schema Model, when it is not running
MetaIdle ==
    /\ source_tables = <<>>
    /\ TABLES_TO_MIGRATE = <<>>
    /\ metadata_tables = <<>>
    /\ returned_tables = <<>>
    /\ meta_pc = "idle"

\* the variables of the translator, when it is not running
TrIdle ==
    /\ identifier = <<>>
    /\ translated = <<>>
    /\ retranslated = <<>>
    /\ tr_pc = "idle"

(***************************************************************************)
(* Bounds of the model.                                                    *)
(***************************************************************************)
MaxIdLen == 3       \* longest identifier handed to translate_identifier
MaxEntries == 2     \* most entries of a translation dictionary
MaxFkRows == 3      \* most foreign-key rows of the source catalog
MaxColumns == 4     \* most columns of a table
NumTables == 3      \* tables of the Schema Model of a run
MaxBatches == 2     \* most fetchmany batches a source table yields
NumViews == 3       \* views of the Schema Model

(***************************************************************************)
(* Python string primitives.                                               *)
(***************************************************************************)
\* the characters c of Latin-1 with c.lower() != c, and c.lower() of each
UpperLetters == <<"A","B","C","D","E","F","G","H","I","J","K","L","M",
                  "N","O","P","Q","R","S","T","U","V","W","X","Y","Z",
                  "À","Á","Â","Ã","Ä","Å","Æ","Ç","È","É","Ê","Ë","Ì",
                  "Í","Î","Ï","Ð","Ñ","Ò","Ó","Ô","Õ","Ö","Ø","Ù","Ú",
                  "Û","Ü","Ý","Þ">>
LowerLetters == <<"a","b","c","d","e","f","g","h","i","j","k","l","m",
                  "n","o","p","q","r","s","t","u","v","w","x","y","z",
                  "à","á","â","ã","ä","å","æ","ç","è","é","ê","ë","ì",
                  "í","î","ï","ð","ñ","ò","ó","ô","õ","ö","ø","ù","ú",
                  "û","ü","ý","þ">>

\* c.lower() of the characters of UpperLetters
LowerOf ==
    [c \in {UpperLetters[i] : i \in 1..Len(UpperLetters)} |->
        LowerLetters[CHOOSE i \in 1..Len(UpperLetters) : UpperLetters[i] = c]]

\* str.lower() on one character
LowerChar(c) == IF c \in DOMAIN LowerOf THEN LowerOf[c] ELSE c

\* str.lower()
Lower(s) == [i \in 1..Len(s) |-> LowerChar(s[i])]

Digits == <<"0","1","2","3","4","5","6","7","8","9">>

\* str(n) for a natural number n, as used by the f-string f"{base}_{counter}"
RECURSIVE IntToStr(_)
IntToStr(n) ==
    IF n < 10 THEN <<Digits[n + 1]>>
    ELSE IntToStr(n \div 10) \o <<Digits[(n % 10) + 1]>>

\* s.replace(c, '') for a one-character c
RECURSIVE RemoveChar(_, _)
RemoveChar(s, c) ==
    IF s = <<>> THEN <<>>
    ELSE IF Head(s) = c THEN RemoveChar(Tail(s), c)
    ELSE <<Head(s)>> \o RemoveChar(Tail(s), c)

\* s.split('_'): a sequence of parts, never empty ("" splits into [""])
RECURSIVE SplitUnderscore(_)
SplitUnderscore(s) ==
    IF \E i \in 1..Len(s) : s[i] = "_"
    THEN LET i == CHOOSE j \in 1..Len(s) :
                      s[j] = "_" /\ \A k \in 1..(j - 1) : s[k] # "_"
         IN  <<SubSeq(s, 1, i - 1)>> \o SplitUnderscore(SubSeq(s, i + 1, Len(s)))
    ELSE <<s>>

\* '_'.join(parts)
RECURSIVE JoinUnderscore(_)
JoinUnderscore(parts) ==
    IF parts = <<>> THEN <<>>
    ELSE IF Len(parts) = 1 THEN parts[1]
    ELSE parts[1] \o <<"_">> \o JoinUnderscore(Tail(parts))

(***************************************************************************)
(* translate_identifier (main.py 73-100).                                  *)
(***************************************************************************)
\* identifier.replace('"', '').replace('[', '').replace(']', '')
CleanIdentifier(id) == RemoveChar(RemoveChar(RemoveChar(id, "\""), "["), "]")

\* A wrong default in the per-part lookup: a part missing from the
\* dictionary becomes the empty string instead of itself.
TranslatePartDropsMissing(D, part) == IF part \in DOMAIN D THEN D[part] ELSE <<>>

\* TRANSLATION_DICT.get(part, part)
TranslatePart(D, part) == IF part \in DOMAIN D THEN D[part] ELSE part

\* The early return of the no-dictionary mode hands back the cleaned
\* identifier instead of the identifier as given.
EmptyDictResultCleaned(id) == CleanIdentifier(id)

\* if not TRANSLATION_DICT: return identifier
EmptyDictResult(id) == id

\* translate_identifier, with the dictionary as an explicit argument
TranslateWith(D, id) ==
    IF DOMAIN D = {} THEN EmptyDictResult(id)
    ELSE LET clean_identifier == CleanIdentifier(id)
             parts == SplitUnderscore(clean_identifier)
             translated_parts == [i \in 1..Len(parts) |-> TranslatePart(D, parts[i])]
             joined == JoinUnderscore(translated_parts)
         IN  IF clean_identifier \in DOMAIN D THEN D[clean_identifier]
             ELSE IF joined = clean_identifier THEN id
             ELSE joined

\* translate_identifier reads the global TRANSLATION_DICT
translate_identifier(id) == TranslateWith(TRANSLATION_DICT, id)

(***************************************************************************)
(* Inputs of the translation specification.                                *)
(***************************************************************************)
IdentAlphabet == {"a", "b", "_", "["}

RECURSIVE SeqsUpTo(_, _)
SeqsUpTo(S, n) ==
    IF n = 0 THEN {<<>>}
    ELSE LET shorter == SeqsUpTo(S, n - 1)
         IN  shorter \cup {Append(s, c) : s \in shorter, c \in S}

Identifiers == SeqsUpTo(IdentAlphabet, MaxIdLen)

DictKeys == { <<"a">>, <<"b">>, <<"a","_","b">>, <<"b","_","b">> }
DictValues == { <<>>, <<"b">>, <<"c">>, <<"c","_","a">>, <<"[","a">> }

Dictionaries ==
    UNION { [K -> DictValues] :
              K \in {S \in SUBSET DictKeys : Cardinality(S) <= MaxEntries} }

(***************************************************************************)
(* Specification of translate_identifier: a dictionary is loaded, an       *)
(* identifier is translated, and the result is translated again.           *)
(***************************************************************************)
TrInit ==
    /\ RunIdle
    /\ TsqlIdle
    /\ ViewIdle
    /\ TsIdle
    /\ ColIdle
    /\ ValIdle
    /\ ApiIdle
    /\ SeqIdle
    /\ TrkIdle
    /\ DefIdle
    /\ ConIdle
    /\ MetaIdle
    /\ TRANSLATION_DICT \in Dictionaries
    /\ identifier \in Identifiers
    /\ translated = <<>>
    /\ retranslated = <<>>
    /\ tr_pc = "input"

Translate ==
    /\ tr_pc = "input"
    /\ translated' = translate_identifier(identifier)
    /\ tr_pc' = "translated"
    /\ UNCHANGED <<TRANSLATION_DICT, identifier, retranslated, notTr>>

Retranslate ==
    /\ tr_pc = "translated"
    /\ retranslated' = translate_identifier(translated)
    /\ tr_pc' = "retranslated"
    /\ UNCHANGED <<TRANSLATION_DICT, identifier, translated, notTr>>

TrNext == Translate \/ Retranslate

SpecTranslate == TrInit /\ [][TrNext]_vars

(***************************************************************************)
(* Claims about translate_identifier, checked under SpecTranslate.         *)
(***************************************************************************)

\* C7: with an empty translation dictionary translate_identifier returns
\* its input unchanged, for every input, also one wrapped in brackets or
\* quotes (and so does translating the result again).
C7_EmptyDictIsIdentity ==
    DOMAIN TRANSLATION_DICT = {} =>
        /\ tr_pc # "input" => translated = identifier
        /\ tr_pc = "retranslated" => retranslated = identifier

\* A bracket-wrapped identifier has been translated with an empty dictionary.
C7_Witness ==
    /\ tr_pc = "translated"
    /\ DOMAIN TRANSLATION_DICT = {}
    /\ CleanIdentifier(identifier) # identifier

\* no value of the dictionary is itself a key
NoValueIsKey(D) == \A k \in DOMAIN D : D[k] \notin DOMAIN D

\* the underscore-delimited parts of a value, brackets and quotes stripped
PartsOfValue(v) ==
    LET parts == SplitUnderscore(CleanIdentifier(v))
    IN  {parts[i] : i \in 1..Len(parts)}

\* no underscore-delimited part of a value is a key
NoKeyInsideValue(D) ==
    \A k \in DOMAIN D : \A p \in PartsOfValue(D[k]) : p \notin DOMAIN D

\* no key holds an underscore
NoCompoundKey(D) == \A k \in DOMAIN D : \A i \in 1..Len(k) : k[i] # "_"

\* C8 as stated: whenever no value of the dictionary is itself a key,
\* translating a translated identifier again changes nothing.
C8_IdempotentWhenNoValueIsKey ==
    (tr_pc = "retranslated" /\ NoValueIsKey(TRANSLATION_DICT))
        => retranslated = translated

\* C8 amended: whenever no value of the dictionary is itself a key, no
\* underscore-delimited part of a value (brackets and quotes stripped) is
\* a key, and no key holds an underscore, translating a translated
\* identifier again changes nothing.
C8_IdempotentWhenNoKeyInValues ==
    (/\ tr_pc = "retranslated"
     /\ NoValueIsKey(TRANSLATION_DICT)
     /\ NoKeyInsideValue(TRANSLATION_DICT)
     /\ NoCompoundKey(TRANSLATION_DICT))
        => retranslated = translated

\* Under such a dictionary an identifier was really translated (the result
\* is neither the input nor the cleaned input) and then translated again.
C8_Witness ==
    /\ tr_pc = "retranslated"
    /\ DOMAIN TRANSLATION_DICT # {}
    /\ NoValueIsKey(TRANSLATION_DICT)
    /\ NoKeyInsideValue(TRANSLATION_DICT)
    /\ NoCompoundKey(TRANSLATION_DICT)
    /\ translated # identifier
    /\ translated # CleanIdentifier(identifier)
    /\ \A k \in DOMAIN TRANSLATION_DICT : TRANSLATION_DICT[k] # <<>>

\* the dictionary with its empty-string entries removed
WithoutEmptyEntries(D) ==
    [k \in {x \in DOMAIN D : D[x] # <<>>} |-> D[k]]

\* C9: an entry whose value is the empty string behaves as if it were
\* absent (the translation equals the translation with those entries
\* removed), and a non-empty identifier never translates to the empty
\* string.
C9_EmptyEntryIsUntranslated ==
    tr_pc # "input" =>
        /\ translated = TranslateWith(WithoutEmptyEntries(TRANSLATION_DICT), identifier)
        /\ identifier # <<>> => translated # <<>>

(***************************************************************************)
(* Dependency resolver: metadata['dependencies'] (main.py 233-244) and     *)
(* topological_sort (main.py 301-330).                                     *)
(*                                                                         *)
(* A dict keeps insertion order, so it is a sequence of <<key, value>>     *)
(* items with distinct keys.                                               *)
(***************************************************************************)
SourceTables == {"dbo.A", "dbo.B", "dbo.C"}

\* the keys of an ordered dict
DictKeysOf(d) == {d[i][1] : i \in 1..Len(d)}

\* defaultdict(list): d[k].append(v)
DictListAppend(d, k, v) ==
    IF k \in DictKeysOf(d)
    THEN [i \in 1..Len(d) |->
             IF d[i][1] = k THEN <<k, Append(d[i][2], v)>> ELSE d[i]]
    ELSE Append(d, <<k, <<v>>>>)

\* the loop over the foreign-key rows: every row <<child, parent>> with
\* parent # child and the child among the tables read appends the parent
\* to dependencies[child]
RECURSIVE ReadDependencies(_, _, _)
ReadDependencies(rows, tables, deps) ==
    IF rows = <<>> THEN deps
    ELSE LET child_key == rows[1][1]
             parent_key == rows[1][2]
         IN  IF parent_key # child_key /\ child_key \in tables
             THEN ReadDependencies(Tail(rows), tables,
                                   DictListAppend(deps, child_key, parent_key))
             ELSE ReadDependencies(Tail(rows), tables, deps)

\* for u, deps in dependencies.items(): for v in deps: the pairs <<u, v>>
RECURSIVE DependencyPairs(_)
DependencyPairs(deps) ==
    IF deps = <<>> THEN <<>>
    ELSE [i \in 1..Len(deps[1][2]) |-> <<deps[1][1], deps[1][2][i]>>]
         \o DependencyPairs(Tail(deps))

\* The edge is recorded the wrong way round: the parent is made to wait
\* for the child.
AddEdgeReversed(g, u, v) ==
    [in_degree |-> [g.in_degree EXCEPT ![v] = @ + 1],
     adj |-> [g.adj EXCEPT ![u] = Append(@, v)]]

\* adj[v].append(u); in_degree[u] += 1
AddEdge(g, u, v) ==
    [in_degree |-> [g.in_degree EXCEPT ![u] = @ + 1],
     adj |-> [g.adj EXCEPT ![v] = Append(@, u)]]

\* lines 304-311: in_degree and adj over all_tables
RECURSIVE BuildGraph(_, _)
BuildGraph(pairs, g) ==
    IF pairs = <<>> THEN g
    ELSE LET u == pairs[1][1]
             v == pairs[1][2]
         IN  IF u \in DOMAIN g.adj /\ v \in DOMAIN g.adj
             THEN BuildGraph(Tail(pairs), AddEdge(g, u, v))
             ELSE BuildGraph(Tail(pairs), g)

\* lines 318-321: for v in adj[u]: in_degree[v] -= 1, enqueue at zero
RECURSIVE Relax(_, _, _)
Relax(vs, in_degree, queue) ==
    IF vs = <<>> THEN [in_degree |-> in_degree, queue |-> queue]
    ELSE LET v == Head(vs)
             dec == [in_degree EXCEPT ![v] = @ - 1]
         IN  Relax(Tail(vs), dec, IF dec[v] = 0 THEN Append(queue, v) ELSE queue)

\* lines 315-321: while queue: u = queue.pop(0); sorted_order.append(u); ...
RECURSIVE KahnLoop(_, _, _, _)
KahnLoop(queue, sorted_order, in_degree, adj) ==
    IF queue = <<>> THEN sorted_order
    ELSE LET u == Head(queue)
             r == Relax(adj[u], in_degree, Tail(queue))
         IN  KahnLoop(r.queue, Append(sorted_order, u), r.in_degree, adj)

\* [u for u in all_tables if in_degree[u] == 0]
RECURSIVE ZeroInDegree(_, _)
ZeroInDegree(tables, in_degree) ==
    IF tables = <<>> THEN <<>>
    ELSE IF in_degree[Head(tables)] = 0
         THEN <<Head(tables)>> \o ZeroInDegree(Tail(tables), in_degree)
         ELSE ZeroInDegree(Tail(tables), in_degree)

SeqRange(s) == {s[i] : i \in 1..Len(s)}

\* lines 303-321: the order Kahn's algorithm reaches
KahnOrder(deps, tables) ==
    LET T == SeqRange(tables)
        g == BuildGraph(DependencyPairs(deps),
                        [in_degree |-> [u \in T |-> 0], adj |-> [u \in T |-> <<>>]])
    IN  KahnLoop(ZeroInDegree(tables, g.in_degree), <<>>, g.in_degree, g.adj)

\* list(S): the members of a set in some order
ListsOf(S) ==
    {s \in [1..Cardinality(S) -> S] : \A i, j \in 1..Cardinality(S) : s[i] = s[j] => i = j}

\* The tables Kahn's algorithm could not order are put first.
CycleResultPutsCyclesFirst(sorted_order, cycles) == cycles \o sorted_order

\* The tables Kahn's algorithm could not order are left out of the result.
CycleResultDropsCycles(sorted_order, cycles) == sorted_order

\* return sorted_order + list(cycles)
CycleResult(sorted_order, cycles) == sorted_order \o cycles

\* topological_sort: the set of its possible results, each with the list
\* returned and whether the warning was logged (list(cycles) iterates a
\* set, in an order Python does not fix)
topological_sort(deps, tables) ==
    LET sorted_order == KahnOrder(deps, tables)
    IN  IF Len(sorted_order) = Len(tables)
        THEN {[order |-> sorted_order, warned |-> FALSE]}
        ELSE {[order |-> CycleResult(sorted_order, cycles), warned |-> TRUE] :
                 cycles \in ListsOf(SeqRange(tables) \ SeqRange(sorted_order))}

(***************************************************************************)
(* Specification of the dependency resolver: the foreign keys are read,    *)
(* then the tables kept for migration are sorted.                          *)
(***************************************************************************)
FkRows == SeqsUpTo(SourceTables \X SourceTables, MaxFkRows)

\* migratable_tables: the tables kept, in catalog order or, after the
\* table filter, in the order of list(set)
MigratableLists == UNION {ListsOf(S) : S \in (SUBSET SourceTables) \ {{}}}

TsInit ==
    /\ RunIdle
    /\ TsqlIdle
    /\ ViewIdle
    /\ TrIdle
    /\ ColIdle
    /\ ValIdle
    /\ ApiIdle
    /\ SeqIdle
    /\ TrkIdle
    /\ DefIdle
    /\ ConIdle
    /\ MetaIdle
    /\ TRANSLATION_DICT = <<>>
    /\ fk_rows \in FkRows
    /\ all_tables \in MigratableLists
    /\ dependencies = <<>>
    /\ sorted_tables = <<>>
    /\ cycle_warning = FALSE
    /\ ts_pc = "catalog"

ReadForeignKeys ==
    /\ ts_pc = "catalog"
    /\ dependencies' = ReadDependencies(fk_rows, SourceTables, <<>>)
    /\ ts_pc' = "read"
    /\ UNCHANGED <<notTs, fk_rows, all_tables, sorted_tables, cycle_warning>>

TopologicalSort ==
    /\ ts_pc = "read"
    /\ \E r \in topological_sort(dependencies, all_tables) :
           /\ sorted_tables' = r.order
           /\ cycle_warning' = r.warned
    /\ ts_pc' = "sorted"
    /\ UNCHANGED <<notTs, fk_rows, dependencies, all_tables>>

TsNext == ReadForeignKeys \/ TopologicalSort

SpecSort == TsInit /\ [][TsNext]_vars

(***************************************************************************)
(* Claims about topological_sort, checked under SpecSort.                  *)
(***************************************************************************)
\* child depends on parent in the dependency map
DependsOn(deps, child, parent) ==
    \E i \in 1..Len(deps) :
        deps[i][1] = child /\ parent \in SeqRange(deps[i][2])

\* the tables of T that no order can place after all their parents in T:
\* the largest subset of T in which every table has a parent
Unorderable(deps, T) ==
    UNION {S \in SUBSET T : \A u \in S : \E v \in S : DependsOn(deps, u, v)}

\* the position of a table in a list of distinct tables
PositionIn(s, t) == CHOOSE i \in 1..Len(s) : s[i] = t

\* C1: for an acyclic dependency map the order returned places every
\* table after each of its parents that is in the table set; parents
\* outside the set are ignored.
C1_ParentsFirst ==
    (ts_pc = "sorted" /\ Unorderable(dependencies, SourceTables) = {}) =>
        \A u, v \in SeqRange(all_tables) :
            DependsOn(dependencies, u, v) =>
                /\ u \in SeqRange(sorted_tables)
                /\ v \in SeqRange(sorted_tables)
                /\ PositionIn(sorted_tables, v) < PositionIn(sorted_tables, u)

\* An acyclic map was sorted in which a child is listed before its parent
\* in the input, and some table has a parent outside the table set.
C1_Witness ==
    /\ ts_pc = "sorted"
    /\ Unorderable(dependencies, SourceTables) = {}
    /\ \E u, v \in SeqRange(all_tables) :
           /\ DependsOn(dependencies, u, v)
           /\ PositionIn(all_tables, u) < PositionIn(all_tables, v)
    /\ \E u \in SeqRange(all_tables) : \E v \in SourceTables \ SeqRange(all_tables) :
           DependsOn(dependencies, u, v)

\* C2: for every dependency graph, cyclic or not, the result is a
\* permutation of the input tables (none dropped, none repeated), and the
\* cycle warning is logged exactly when some table cannot be ordered.
C2_PermutationAndWarning ==
    ts_pc = "sorted" =>
        /\ Len(sorted_tables) = Len(all_tables)
        /\ SeqRange(sorted_tables) = SeqRange(all_tables)
        /\ cycle_warning <=> Unorderable(dependencies, SeqRange(all_tables)) # {}

\* The two-table cycle A -> B -> A was sorted, with a third table.
C2_Witness ==
    /\ ts_pc = "sorted"
    /\ DependsOn(dependencies, "dbo.A", "dbo.B")
    /\ DependsOn(dependencies, "dbo.B", "dbo.A")
    /\ SeqRange(all_tables) = SourceTables
    /\ cycle_warning

\* the tables of T a table depends on, directly or through tables of T
RECURSIVE Ancestors(_, _, _, _)
Ancestors(deps, T, found, n) ==
    IF n = 0 THEN found
    ELSE Ancestors(deps, T,
                   found \cup { v \in T : \E u \in found : DependsOn(deps, u, v) },
                   n - 1)

AncestorsOf(deps, T, t) ==
    Ancestors(deps, T, { v \in T : DependsOn(deps, t, v) }, Cardinality(T))

\* the table lies on a dependency cycle of tables of T
OnCycle(deps, T, t) == t \in AncestorsOf(deps, T, t)

\* the tables the sort appended: those that follow the warning's tables
\* count from the end
AppendedTables ==
    LET T == SeqRange(all_tables)
        n == Cardinality(Unorderable(dependencies, T))
    IN  { sorted_tables[i] : i \in (Len(sorted_tables) - n + 1)..Len(sorted_tables) }

\* the tables that can be placed after all their parents come first
OrderableFirst ==
    LET T == SeqRange(all_tables)
    IN  \A i, j \in 1..Len(sorted_tables) :
            (/\ sorted_tables[i] \notin Unorderable(dependencies, T)
             /\ sorted_tables[j] \in Unorderable(dependencies, T)) => i < j

\* C25 as stated: whenever the sort orders fewer tables than given, every
\* table appended at the end lies on a dependency cycle, and the appended
\* tables come after all tables ordered by Kahn's algorithm.
C25_AppendedLieOnCycles ==
    (ts_pc = "sorted" /\ cycle_warning) =>
        /\ \A t \in AppendedTables :
               OnCycle(dependencies, SeqRange(all_tables), t)
        /\ OrderableFirst

\* C25, amended: every appended table lies on a dependency cycle or
\* depends, directly or through other tables, on a table that lies on one,
\* and the appended tables come after all tables ordered by Kahn's
\* algorithm.
C25_AppendedReachCycles ==
    (ts_pc = "sorted" /\ cycle_warning) =>
        LET T == SeqRange(all_tables)
        IN  /\ AppendedTables = Unorderable(dependencies, T)
            /\ \A t \in AppendedTables :
                   \/ OnCycle(dependencies, T, t)
                   \/ \E v \in AncestorsOf(dependencies, T, t) :
                          OnCycle(dependencies, T, v)
            /\ OrderableFirst

\* A and B depend on each other, C depends on A and lies on no cycle; the
\* sort returned no orderable table and appended all three
C25_Witness ==
    /\ ts_pc = "sorted"
    /\ cycle_warning
    /\ SeqRange(all_tables) = SourceTables
    /\ DependsOn(dependencies, "dbo.A", "dbo.B")
    /\ DependsOn(dependencies, "dbo.B", "dbo.A")
    /\ DependsOn(dependencies, "dbo.C", "dbo.A")
    /\ ~OnCycle(dependencies, SourceTables, "dbo.C")
    /\ "dbo.C" \in AppendedTables

(***************************************************************************)
(* Duplicate-name resolution of the columns of one table: its four copies  *)
(* in migrate_tables_structure (main.py 370-389), migrate_data (main.py    *)
(* 468-484), run_migration (api.py 315-332) and get_final_column_name      *)
(* (main.py 532-552).                                                      *)
(***************************************************************************)
\* The used-name test compares the name as written, not lower-cased.
RECURSIVE NextFreeNameCaseSensitive(_, _, _, _)
NextFreeNameCaseSensitive(base, name, counter, used) ==
    IF name \in used
    THEN NextFreeNameCaseSensitive(base, base \o <<"_">> \o IntToStr(counter),
                                   counter + 1, used)
    ELSE name

\* counter = 1
\* while name.lower() in used_column_names:
\*     name = f"{base}_{counter}"; counter += 1
RECURSIVE NextFreeName(_, _, _, _)
NextFreeName(base, name, counter, used) ==
    IF Lower(name) \in used
    THEN NextFreeName(base, base \o <<"_">> \o IntToStr(counter), counter + 1, used)
    ELSE name

\* migrate_tables_structure: the name of every column of the CREATE TABLE
RECURSIVE StructureFinalNames(_, _)
StructureFinalNames(cols, used_column_names) ==
    IF cols = <<>> THEN <<>>
    ELSE LET base_translated_name == translate_identifier(Head(cols))
             translated_col_name ==
                 NextFreeName(base_translated_name, base_translated_name, 1,
                              used_column_names)
         IN  <<translated_col_name>> \o
             StructureFinalNames(Tail(cols),
                                 used_column_names \cup {Lower(translated_col_name)})

\* migrate_data: final_translated_columns
RECURSIVE DataFinalNames(_, _)
DataFinalNames(cols, used_column_names) ==
    IF cols = <<>> THEN <<>>
    ELSE LET base_translated_name == translate_identifier(Head(cols))
             final_translated_name ==
                 NextFreeName(base_translated_name, base_translated_name, 1,
                              used_column_names)
         IN  <<final_translated_name>> \o
             DataFinalNames(Tail(cols),
                            used_column_names \cup {Lower(final_translated_name)})

\* run_migration: final_translated_columns (through main.translate_identifier)
RECURSIVE ApiFinalNames(_, _)
ApiFinalNames(cols, used_column_names) ==
    IF cols = <<>> THEN <<>>
    ELSE LET base_translated_name == translate_identifier(Head(cols))
             final_translated_name ==
                 NextFreeName(base_translated_name, base_translated_name, 1,
                              used_column_names)
         IN  <<final_translated_name>> \o
             ApiFinalNames(Tail(cols),
                           used_column_names \cup {Lower(final_translated_name)})

\* get_final_column_name: the loop returns at the first column whose
\* COLUMN_NAME is original_col_name, and falls back to the bare translation
RECURSIVE FinalNameLoop(_, _, _)
FinalNameLoop(original_col_name, cols, used_column_names) ==
    IF cols = <<>> THEN translate_identifier(original_col_name)
    ELSE LET base_translated_name == translate_identifier(Head(cols))
             final_translated_name ==
                 NextFreeName(base_translated_name, base_translated_name, 1,
                              used_column_names)
         IN  IF Head(cols) = original_col_name THEN final_translated_name
             ELSE FinalNameLoop(original_col_name, Tail(cols),
                                used_column_names \cup {Lower(final_translated_name)})

\* The names already used by the columns before are not taken into account.
FinalNameWithoutResolution(original_col_name, cols) ==
    translate_identifier(original_col_name)

get_final_column_name(original_col_name, cols) ==
    FinalNameLoop(original_col_name, cols, {})

\* get_mssql_metadata 199-206, 238-239, 280-284: a constraint or an index
\* is stored with the translated names of its columns
DefinitionColumn(column_name) == translate_identifier(column_name)

\* migrate_constraints_and_indexes 573-577: the first column of the table
\* whose translated name is the name in the definition, if there is one
RECURSIVE OriginalColumn(_, _)
OriginalColumn(col_name, cols) ==
    IF cols = <<>> THEN <<>>
    ELSE IF translate_identifier(Head(cols)) = col_name THEN << Head(cols) >>
    ELSE OriginalColumn(col_name, Tail(cols))

\* migrate_constraints_and_indexes 569-583 (and 605-618, 627-638, 664-676):
\* the name a column of a definition is created with.  A column whose
\* original name is the empty string counts as not found.
FinalColumn(col_name, cols) ==
    LET original_col == OriginalColumn(col_name, cols)
    IN  IF original_col # <<>> /\ original_col[1] # <<>>
        THEN get_final_column_name(original_col[1], cols)
        ELSE col_name

(***************************************************************************)
(* Specification of the column naming of one table through the phases of   *)
(* a run: table creation, data transfer (by main or by the API), and       *)
(* constraint building.                                                    *)
(***************************************************************************)
Name == <<"N","a","m","e">>
ColumnNames ==
    { Name, <<"n","a","m","e">>, Name \o <<"_","1">>, <<"N","o","m">>,
      <<"N","a","a","m">> }
ColumnDictKeys == { <<"N","o","m">>, <<"N","a","a","m">> }
ColumnDictValues == { Name, <<"N","A","M","E">> }
ColumnDictionaries == UNION { [K -> ColumnDictValues] : K \in SUBSET ColumnDictKeys }

ColInit ==
    /\ RunIdle
    /\ TsqlIdle
    /\ ViewIdle
    /\ TrIdle
    /\ TsIdle
    /\ ValIdle
    /\ ApiIdle
    /\ SeqIdle
    /\ TrkIdle
    /\ DefIdle
    /\ ConIdle
    /\ MetaIdle
    /\ TRANSLATION_DICT \in ColumnDictionaries
    /\ table_columns \in SeqsUpTo(ColumnNames, MaxColumns) \ {<<>>}
    /\ col_mode \in {"cli", "api"}
    /\ created_columns = <<>>
    /\ insert_columns = <<>>
    /\ constraint_columns = <<>>
    /\ col_pc = "metadata"

\* migrate_tables_structure on the table
CreateTable ==
    /\ col_pc = "metadata"
    /\ created_columns' = StructureFinalNames(table_columns, {})
    /\ col_pc' = "created"
    /\ UNCHANGED <<notCol, table_columns, col_mode,
                   insert_columns, constraint_columns>>

\* migrate_data on the table, called by main
MigrateDataColumns ==
    /\ col_pc = "created"
    /\ col_mode = "cli"
    /\ insert_columns' = DataFinalNames(table_columns, {})
    /\ col_pc' = "loaded"
    /\ UNCHANGED <<notCol, table_columns, col_mode,
                   created_columns, constraint_columns>>

\* the data loop of run_migration on the table
RunMigrationColumns ==
    /\ col_pc = "created"
    /\ col_mode = "api"
    /\ insert_columns' = ApiFinalNames(table_columns, {})
    /\ col_pc' = "loaded"
    /\ UNCHANGED <<notCol, table_columns, col_mode,
                   created_columns, constraint_columns>>

\* migrate_constraints_and_indexes builds the statement of a key declared on
\* all the columns of the table: get_mssql_metadata stored the translated
\* names, each is resolved to a column of the table and that column is
\* handed to get_final_column_name
BuildConstraintColumns ==
    /\ col_pc = "loaded"
    /\ constraint_columns' =
           [i \in 1..Len(table_columns) |->
               FinalColumn(DefinitionColumn(table_columns[i]), table_columns)]
    /\ col_pc' = "done"
    /\ UNCHANGED <<notCol, table_columns, col_mode,
                   created_columns, insert_columns>>

ColNext ==
    CreateTable \/ MigrateDataColumns \/ RunMigrationColumns \/ BuildConstraintColumns

SpecColumns == ColInit /\ [][ColNext]_vars

(***************************************************************************)
(* Claims about the column naming, checked under SpecColumns.              *)
(***************************************************************************)
\* the elements of a sequence are pairwise different
Distinct(s) == \A i, j \in 1..Len(s) : s[i] = s[j] => i = j

\* C5: the final names of the columns of a table are pairwise distinct
\* ignoring letter case, one per column in column order; three columns
\* whose translation is "Name" get Name, Name_1, Name_2 in that order.
C5_FinalNamesDistinct ==
    col_pc \in {"created", "loaded", "done"} =>
        /\ Len(created_columns) = Len(table_columns)
        /\ Distinct([i \in 1..Len(created_columns) |-> Lower(created_columns[i])])
        /\ (/\ Len(table_columns) = 3
            /\ \A i \in 1..3 : translate_identifier(table_columns[i]) = Name)
           => created_columns =
                  <<Name, Name \o <<"_","1">>, Name \o <<"_","2">>>>

\* A table of three columns with different original names, all translated
\* to "Name", was created as Name, Name_1, Name_2.
C5_Witness ==
    /\ col_pc = "created"
    /\ Len(table_columns) = 3
    /\ Distinct(table_columns)
    /\ \A i \in 1..3 : translate_identifier(table_columns[i]) = Name
    /\ created_columns = <<Name, Name \o <<"_","1">>, Name \o <<"_","2">>>>

\* the position of a column in a list of columns with distinct names
PositionOf(col, cols) == CHOOSE i \in 1..Len(cols) : cols[i] = col

\* the column migrate_constraints_and_indexes hands to get_final_column_name
\* for the i-th column of the key
AskedColumn(i) ==
    OriginalColumn(DefinitionColumn(table_columns[i]), table_columns)[1]

\* C6: for a table whose original column names are distinct, table
\* creation, data transfer (main's and the API's) and constraint building
\* compute the same final name for every column: the insert names are the
\* created names, and every call of get_final_column_name made by constraint
\* building returns the name table creation gave to the column it is asked
\* about.
C6_SameNamesInAllPhases ==
    Distinct(table_columns) =>
        /\ col_pc \in {"loaded", "done"} => insert_columns = created_columns
        /\ col_pc = "done" =>
               \A i \in 1..Len(table_columns) :
                   constraint_columns[i] =
                       created_columns[PositionOf(AskedColumn(i), table_columns)]

\* All three phases have named the columns of a table in which a collision
\* was resolved by a suffix, the data being transferred by the API.
C6_Witness ==
    /\ col_pc = "done"
    /\ col_mode = "api"
    /\ Distinct(table_columns)
    /\ \E i \in 1..Len(table_columns) :
           /\ created_columns[i] # translate_identifier(table_columns[i])
           /\ AskedColumn(i) = table_columns[i]
           /\ constraint_columns[i] = created_columns[i]

(***************************************************************************)
(* A migration run: main (main.py 961-975) and run_migration (api.py       *)
(* 288-381) call the phases in order: migrate_tables_structure, the data   *)
(* transfer (migrate_data, or the copy of its loop in run_migration),      *)
(* add_new_columns_to_tables, migrate_constraints_and_indexes and          *)
(* migrate_views.                                                          *)
(*                                                                         *)
(* Rows are counted in fetchmany batches (page_size rows each, the last    *)
(* one shorter).  The target connection is a transaction: a statement      *)
(* executed with autocommit on is committed at once, one executed with     *)
(* autocommit off is pending until commit() or rollback().                 *)
(***************************************************************************)
\* constraints are stored keys first (main.py 208-212), foreign keys after
\* (main.py 251-254)
TableShapes ==
    { [constraints |-> <<"PRIMARY KEY", "UNIQUE", "FOREIGN KEY">>,
       indexes |-> 1, identity |-> 1],
      [constraints |-> <<"FOREIGN KEY">>, indexes |-> 0, identity |-> 0] }

\* a source table is empty, fits one page of fetchmany, or has MaxBatches pages
BatchCounts == {0, 1, MaxBatches}

TableMetadata ==
    { [batches |-> b, constraints |-> sh.constraints, indexes |-> sh.indexes,
       identity |-> sh.identity] : b \in BatchCounts, sh \in TableShapes }

TablePositions == 1..NumTables

\* sorted_tables is a permutation of the tables of the Schema Model
DataOrders ==
    { [i \in TablePositions |-> i], [i \in TablePositions |-> NumTables + 1 - i] }

ZeroRows == [t \in TablePositions |-> 0]

\* cursor.execute / execute_values of an INSERT of one batch into table t
ExecuteInsert(ac, pending, committed, t) ==
    IF ac
    THEN [pending |-> pending, committed |-> [committed EXCEPT ![t] = @ + 1]]
    ELSE [pending |-> [pending EXCEPT ![t] = @ + 1], committed |-> committed]

\* pg_conn.commit()
Commit(pending, committed) ==
    [pending |-> ZeroRows,
     committed |-> [t \in TablePositions |-> committed[t] + pending[t]]]

\* pg_conn.rollback()
Rollback(pending, committed) == [pending |-> ZeroRows, committed |-> committed]

\* The data phase is entered with autocommit left on.
DataPhaseAutocommitLeftOn == TRUE

\* pg_conn.autocommit = False (main.py 965, api.py 298)
DataPhaseAutocommit == FALSE

\* The error of a table is logged and the loop goes on with the next table.
AfterDataFailureContinues(idx) == [pc |-> "data", idx |-> idx + 1]

\* except ...: pg_conn.rollback(); raise (main.py 523-526); in
\* run_migration the exception leaves the loop (api.py 433-435)
AfterDataFailure(idx) == [pc |-> "failed", idx |-> idx]

\* the statements of one pass, over the tables in dict order
RECURSIVE KeyStatements(_, _)
KeyStatements(meta, t) ==
    IF t > Len(meta) THEN <<>>
    ELSE SelectSeq([i \in 1..Len(meta[t].constraints) |->
                       [kind |-> meta[t].constraints[i], table |-> t]],
                   LAMBDA st : st.kind \in {"PRIMARY KEY", "UNIQUE"})
         \o KeyStatements(meta, t + 1)

RECURSIVE ForeignKeyStatements(_, _)
ForeignKeyStatements(meta, t) ==
    IF t > Len(meta) THEN <<>>
    ELSE SelectSeq([i \in 1..Len(meta[t].constraints) |->
                       [kind |-> meta[t].constraints[i], table |-> t]],
                   LAMBDA st : st.kind = "FOREIGN KEY")
         \o ForeignKeyStatements(meta, t + 1)

RECURSIVE IndexStatements(_, _)
IndexStatements(meta, t) ==
    IF t > Len(meta) THEN <<>>
    ELSE [i \in 1..meta[t].indexes |-> [kind |-> "INDEX", table |-> t]]
         \o IndexStatements(meta, t + 1)

RECURSIVE SequenceStatements(_, _)
SequenceStatements(meta, t) ==
    IF t > Len(meta) THEN <<>>
    ELSE [i \in 1..meta[t].identity |-> [kind |-> "SETVAL", table |-> t]]
         \o SequenceStatements(meta, t + 1)

\* The foreign-key pass runs before the key pass.
ConstraintStatementsForeignKeysFirst(meta) ==
    ForeignKeyStatements(meta, 1) \o KeyStatements(meta, 1)
    \o IndexStatements(meta, 1) \o SequenceStatements(meta, 1)

\* migrate_constraints_and_indexes: the statements it executes, in order
ConstraintStatements(meta) ==
    KeyStatements(meta, 1) \o ForeignKeyStatements(meta, 1)
    \o IndexStatements(meta, 1) \o SequenceStatements(meta, 1)

RunInit ==
    /\ TrIdle
    /\ TsIdle
    /\ ColIdle
    /\ TsqlIdle
    /\ ViewIdle
    /\ ValIdle
    /\ ApiIdle
    /\ SeqIdle
    /\ TrkIdle
    /\ DefIdle
    /\ ConIdle
    /\ MetaIdle
    /\ TRANSLATION_DICT = <<>>
    /\ run_mode \in {"cli", "api"}
    /\ run_pc = "structure"
    /\ autocommit = TRUE
    /\ tables_metadata \in [TablePositions -> TableMetadata]
    /\ data_order \in DataOrders
    /\ table_idx = 1
    /\ batches_sent = 0
    /\ pending_rows = ZeroRows
    /\ committed_rows = ZeroRows
    /\ commit_count = ZeroRows
    /\ stmt_log = <<>>
    /\ stmt_pos = 1
    /\ last_stmt_ok = TRUE
    /\ last_stmt_rollback = FALSE
    /\ error_logged = FALSE
    /\ failed_phase = "none"
    /\ failed_table = 0

\* migrate_tables_structure: one CREATE TABLE succeeds
CreateTableStatement ==
    /\ run_pc = "structure"
    /\ table_idx <= NumTables
    /\ stmt_log' = Append(stmt_log, [kind |-> "CREATE TABLE", table |-> table_idx])
    /\ table_idx' = table_idx + 1
    /\ UNCHANGED <<notRun, run_mode, run_pc, autocommit, tables_metadata, data_order,
                   batches_sent, pending_rows, committed_rows, commit_count,
                   stmt_pos, stmtOutcome, failed_phase, failed_table>>

\* migrate_tables_structure: a CREATE TABLE raises psycopg2.Error, which is
\* logged and re-raised (main.py 433-436); the caller's handler ends the run
CreateTableFails ==
    /\ run_pc = "structure"
    /\ table_idx <= NumTables
    /\ run_pc' = "failed"
    /\ failed_phase' = "structure"
    /\ UNCHANGED <<notRun, run_mode, autocommit, tables_metadata, data_order,
                   table_idx, batches_sent, pending_rows, committed_rows,
                   commit_count, stmt_log, stmt_pos, stmtOutcome, failed_table>>

\* all tables are created: pg_conn.autocommit = False, the data phase starts
BeginData ==
    /\ run_pc = "structure"
    /\ table_idx > NumTables
    /\ autocommit' = DataPhaseAutocommit
    /\ run_pc' = "data"
    /\ table_idx' = 1
    /\ UNCHANGED <<notRun, run_mode, tables_metadata, data_order, batches_sent,
                   pending_rows, committed_rows, commit_count, stmt_log, stmt_pos,
                   stmtOutcome, failed_phase, failed_table>>

\* one fetchmany batch of the current table is inserted by execute_values
InsertBatch ==
    /\ run_pc = "data"
    /\ table_idx <= NumTables
    /\ LET t == data_order[table_idx]
           r == ExecuteInsert(autocommit, pending_rows, committed_rows, t)
       IN  /\ batches_sent < tables_metadata[t].batches
           /\ pending_rows' = r.pending
           /\ committed_rows' = r.committed
    /\ batches_sent' = batches_sent + 1
    /\ UNCHANGED <<notRun, run_mode, run_pc, autocommit, tables_metadata, data_order,
                   table_idx, commit_count, stmt_log, stmt_pos, stmtOutcome,
                   failed_phase, failed_table>>

\* fetchmany returned no rows: pg_conn.commit(), and on to the next table
CommitTable ==
    /\ run_pc = "data"
    /\ table_idx <= NumTables
    /\ LET t == data_order[table_idx]
           r == Commit(pending_rows, committed_rows)
       IN  /\ batches_sent = tables_metadata[t].batches
           /\ pending_rows' = r.pending
           /\ committed_rows' = r.committed
           /\ commit_count' = [commit_count EXCEPT ![t] = @ + 1]
    /\ batches_sent' = 0
    /\ table_idx' = table_idx + 1
    /\ UNCHANGED <<notRun, run_mode, run_pc, autocommit, tables_metadata, data_order,
                   stmt_log, stmt_pos, stmtOutcome, failed_phase, failed_table>>

\* the SELECT, a fetchmany, an execute_values or the commit of the current
\* table raises a database error.  migrate_data rolls back and re-raises;
\* run_migration has no handler in the loop, its transaction stays open and
\* is never committed.
DataFails ==
    /\ run_pc = "data"
    /\ table_idx <= NumTables
    /\ LET after == AfterDataFailure(table_idx)
           r == IF run_mode = "cli"
                THEN Rollback(pending_rows, committed_rows)
                ELSE [pending |-> pending_rows, committed |-> committed_rows]
       IN  /\ run_pc' = after.pc
           /\ table_idx' = after.idx
           /\ pending_rows' = r.pending
           /\ committed_rows' = r.committed
           /\ batches_sent' = IF after.pc = "failed" THEN batches_sent ELSE 0
    /\ failed_phase' = "data"
    /\ failed_table' = table_idx
    /\ UNCHANGED <<notRun, run_mode, autocommit, tables_metadata, data_order,
                   commit_count, stmt_log, stmt_pos, stmtOutcome>>

\* the data loop is over; main turns autocommit on again (main.py 968)
EndData ==
    /\ run_pc = "data"
    /\ table_idx > NumTables
    /\ run_pc' = "columns"
    /\ autocommit' = IF run_mode = "cli" THEN TRUE ELSE autocommit
    /\ UNCHANGED <<notRun, run_mode, tables_metadata, data_order, table_idx,
                   batches_sent, pending_rows, committed_rows, commit_count,
                   stmt_log, stmt_pos, stmtOutcome, failed_phase, failed_table>>

\* add_new_columns_to_tables returns (the script is missing, empty, or has
\* run) or raises.  main lets the exception end the run.  run_migration
\* commits and turns autocommit on when it returns (api.py 366, 376); when
\* it raises, the handler starts with logger.error (369) and api.py defines
\* no name logger, so the handler raises NameError before its rollback and
\* the run ends in the outer handler (433-435), the transaction left open
AddNewColumns ==
    /\ run_pc = "columns"
    /\ \E outcome \in {"returned", "raised"} :
           IF outcome = "raised"
           THEN /\ run_pc' = "failed"
                /\ failed_phase' = "columns"
                /\ UNCHANGED <<autocommit, pending_rows, committed_rows>>
           ELSE IF run_mode = "cli"
           THEN /\ run_pc' = "constraints"
                /\ UNCHANGED <<autocommit, pending_rows, committed_rows,
                               failed_phase>>
           ELSE LET r == Commit(pending_rows, committed_rows)
                IN  /\ run_pc' = "constraints"
                    /\ autocommit' = TRUE
                    /\ pending_rows' = r.pending
                    /\ committed_rows' = r.committed
                    /\ UNCHANGED failed_phase
    /\ UNCHANGED <<notRun, run_mode, tables_metadata, data_order, table_idx,
                   batches_sent, commit_count, stmt_log, stmt_pos, stmtOutcome,
                   failed_table>>

\* The error of a statement is rolled back, logged and raised to the caller.
HandleStatementErrorRaises(ok) ==
    [rollback |-> ~ok, logged |-> ~ok, raised |-> ~ok]

\* except psycopg2.Error as e: logging.error(...); pg_cursor.execute("ROLLBACK")
\* (main.py 589-592, 648-651, 682-684, 704-707); the loop goes on
HandleStatementError(ok) ==
    [rollback |-> ~ok, logged |-> ~ok, raised |-> FALSE]

\* migrate_constraints_and_indexes executes its next statement, which
\* succeeds or raises psycopg2.Error
ExecuteConstraintStatement ==
    /\ run_pc = "constraints"
    /\ LET statements == ConstraintStatements(tables_metadata)
       IN  /\ stmt_pos <= Len(statements)
           /\ stmt_log' = Append(stmt_log, statements[stmt_pos])
    /\ stmt_pos' = stmt_pos + 1
    /\ \E ok \in BOOLEAN :
           LET h == HandleStatementError(ok)
           IN  /\ last_stmt_ok' = ok
               /\ last_stmt_rollback' = h.rollback
               /\ error_logged' = (error_logged \/ h.logged)
               /\ run_pc' = IF h.raised THEN "failed" ELSE run_pc
               /\ failed_phase' = IF h.raised THEN "constraints" ELSE failed_phase
    /\ UNCHANGED <<notRun, run_mode, autocommit, tables_metadata, data_order,
                   table_idx, batches_sent, pending_rows, committed_rows,
                   commit_count, failed_table>>

\* migrate_constraints_and_indexes has returned: migrate_views is called
CallMigrateViews ==
    /\ run_pc = "constraints"
    /\ stmt_pos > Len(ConstraintStatements(tables_metadata))
    /\ stmt_log' = Append(stmt_log, [kind |-> "VIEWS", table |-> 0])
    /\ run_pc' = "views"
    /\ UNCHANGED <<notRun, run_mode, autocommit, tables_metadata, data_order,
                   table_idx, batches_sent, pending_rows, committed_rows,
                   commit_count, stmt_pos, stmtOutcome, failed_phase, failed_table>>

\* migrate_views has returned
FinishRun ==
    /\ run_pc = "views"
    /\ run_pc' = "done"
    /\ UNCHANGED <<notRun, run_mode, autocommit, tables_metadata, data_order,
                   table_idx, batches_sent, pending_rows, committed_rows,
                   commit_count, stmt_log, stmt_pos, stmtOutcome, failed_phase,
                   failed_table>>

\* pg_conn.close(): the server discards a transaction that is still open.
\* main closes the connection in its finally block (main.py 986-991);
\* run_migration closes it on the success path only (api.py 429)
CloseConnection ==
    /\ \/ run_pc = "done"
       \/ run_pc = "failed" /\ run_mode = "cli"
    /\ run_pc' = "closed"
    /\ pending_rows' = Rollback(pending_rows, committed_rows).pending
    /\ UNCHANGED <<notRun, run_mode, autocommit, tables_metadata, data_order,
                   table_idx, batches_sent, committed_rows, commit_count, stmt_log,
                   stmt_pos, stmtOutcome, failed_phase, failed_table>>

RunNext ==
    \/ CreateTableStatement
    \/ CreateTableFails
    \/ BeginData
    \/ InsertBatch
    \/ CommitTable
    \/ DataFails
    \/ EndData
    \/ AddNewColumns
    \/ ExecuteConstraintStatement
    \/ CallMigrateViews
    \/ FinishRun
    \/ CloseConnection

SpecRun == RunInit /\ [][RunNext]_vars

\* the data phase was left by an error of the table at position failed_table
DataFailed == failed_phase = "data"

\* C3: at every point of a run each table holds, as committed rows, none of
\* its source rows or all of them; a table is committed once, after its
\* last batch; and when migrate_data has re-raised a failure, the batches
\* of that table written before it are rolled back.
C3_NoneOrAllCommitted ==
    run_pc # "idle" =>
        /\ \A t \in TablePositions :
               /\ committed_rows[t] \in {0, tables_metadata[t].batches}
               /\ commit_count[t] <= 1
               /\ commit_count[t] = 1 => committed_rows[t] = tables_metadata[t].batches
               /\ committed_rows[t] > 0 => commit_count[t] = 1
        /\ (DataFailed /\ run_mode = "cli") => pending_rows = ZeroRows

\* migrate_data fails on a table of two batches after the first batch was
\* written, with an earlier table already committed
C3_Witness ==
    /\ run_pc = "failed"
    /\ run_mode = "cli"
    /\ DataFailed
    /\ failed_table > 1
    /\ tables_metadata[data_order[failed_table]].batches = 2
    /\ batches_sent >= 1
    /\ pending_rows = ZeroRows
    /\ committed_rows[data_order[failed_table]] = 0
    /\ committed_rows[data_order[1]] = 2

\* kinds of the statements of the phases after the data transfer
LaterPhaseKinds ==
    {"PRIMARY KEY", "UNIQUE", "FOREIGN KEY", "INDEX", "SETVAL", "VIEWS"}

\* C4: when the data transfer fails on the k-th table of the sorted order,
\* the tables before k stay committed, no table after k is transferred, and
\* no constraint, index, sequence or view statement is executed in the run.
C4_FailureAbortsRun ==
    DataFailed =>
        /\ \A i \in TablePositions :
               /\ i < failed_table =>
                      /\ commit_count[data_order[i]] = 1
                      /\ committed_rows[data_order[i]] = tables_metadata[data_order[i]].batches
               /\ i > failed_table =>
                      /\ commit_count[data_order[i]] = 0
                      /\ committed_rows[data_order[i]] = 0
                      /\ pending_rows[data_order[i]] = 0
        /\ \A n \in DOMAIN stmt_log : stmt_log[n].kind \notin LaterPhaseKinds
        /\ run_pc \in {"failed", "closed"}

\* the second of three tables fails; the first has rows and is committed,
\* the third has rows and constraints that are never reached
C4_Witness ==
    /\ DataFailed
    /\ run_pc = "closed"
    /\ failed_table = 2
    /\ committed_rows[data_order[1]] >= 1
    /\ tables_metadata[data_order[3]].batches >= 1
    /\ tables_metadata[data_order[3]].constraints # <<>>

ConstraintKinds == {"PRIMARY KEY", "UNIQUE", "FOREIGN KEY", "INDEX", "SETVAL"}

\* the pass a statement belongs to
PassOf(kind) ==
    CASE kind \in {"PRIMARY KEY", "UNIQUE"} -> 1
      [] kind = "FOREIGN KEY" -> 2
      [] kind = "INDEX" -> 3
      [] kind = "SETVAL" -> 4

\* the tables whose CREATE TABLE was executed, with or without success
AttemptedTables ==
    { stmt_log[n].table : n \in { k \in DOMAIN stmt_log : stmt_log[k].kind = "CREATE TABLE" } }
        \cup (IF failed_phase = "structure" THEN {table_idx} ELSE {})

\* C26: a failure of one CREATE TABLE in migrate_tables_structure is logged
\* and rolled back and processing continues with the next table: every
\* table is attempted whatever the outcome of the tables before it.
C26_EveryTableAttempted ==
    run_pc # "structure" => AttemptedTables = TablePositions

\* C10: no constraint, index or sequence statement is executed before the
\* data of every table is committed, and among these statements every
\* PRIMARY KEY/UNIQUE statement precedes every FOREIGN KEY statement, every
\* FOREIGN KEY statement precedes every index statement, and every index
\* statement precedes every sequence resynchronization.
C10_StatementOrder ==
    /\ (\E n \in DOMAIN stmt_log : stmt_log[n].kind \in ConstraintKinds) =>
           \A t \in TablePositions :
               /\ commit_count[t] = 1
               /\ committed_rows[t] = tables_metadata[t].batches
               /\ pending_rows[t] = 0
    /\ \A m, n \in DOMAIN stmt_log :
           (/\ m < n
            /\ stmt_log[m].kind \in ConstraintKinds
            /\ stmt_log[n].kind \in ConstraintKinds)
               => PassOf(stmt_log[m].kind) <= PassOf(stmt_log[n].kind)

\* a finished run in which the first table has only a foreign key and a
\* later table has keys, an index and an identity column
C10_Witness ==
    /\ run_pc = "done"
    /\ tables_metadata[1].constraints = <<"FOREIGN KEY">>
    /\ tables_metadata[2].indexes = 1
    /\ \E m, n, k \in DOMAIN stmt_log :
           /\ m < n /\ n < k
           /\ stmt_log[m] = [kind |-> "PRIMARY KEY", table |-> 2]
           /\ stmt_log[n] = [kind |-> "FOREIGN KEY", table |-> 1]
           /\ stmt_log[k] = [kind |-> "SETVAL", table |-> 2]
    /\ \E t \in TablePositions : committed_rows[t] = 2

(***************************************************************************)
(* Claims about the handling of statement failures in                      *)
(* migrate_constraints_and_indexes, checked under SpecRun.                 *)
(***************************************************************************)
\* how often the statement of this kind on table t is in the log
TimesAttempted(kind, t) ==
    Cardinality({ n \in DOMAIN stmt_log : stmt_log[n] = [kind |-> kind, table |-> t] })

\* how many statements of this kind the metadata of table t asks for
TimesRequired(kind, t) ==
    CASE kind = "INDEX" -> tables_metadata[t].indexes
      [] kind = "SETVAL" -> tables_metadata[t].identity
      [] OTHER -> Cardinality({ i \in DOMAIN tables_metadata[t].constraints :
                                    tables_metadata[t].constraints[i] = kind })

\* migrate_constraints_and_indexes has returned
ConstraintsPhaseOver ==
    \/ run_pc \in {"views", "done"}
    \/ run_pc = "closed" /\ failed_phase = "none"

\* C11: every constraint, index and identity sequence of every table is
\* attempted exactly once whatever the outcome of the other statements: a
\* failing statement is rolled back and logged, never raised, and every
\* statement has been attempted when the phase returns.
C11_EveryStatementAttemptedOnce ==
    run_pc # "idle" =>
        /\ failed_phase # "constraints"
        /\ ~last_stmt_ok => (last_stmt_rollback /\ error_logged /\ run_pc # "failed")
        /\ \A t \in TablePositions : \A kind \in ConstraintKinds :
               /\ TimesAttempted(kind, t) <= TimesRequired(kind, t)
               /\ ConstraintsPhaseOver => TimesAttempted(kind, t) = TimesRequired(kind, t)

\* a finished run in which a statement failed and the last statement, a
\* sequence resynchronization attempted after that failure, succeeded
C11_Witness ==
    /\ run_pc = "done"
    /\ error_logged
    /\ last_stmt_ok
    /\ stmt_log[Len(stmt_log) - 1].kind = "SETVAL"
    /\ \A t \in TablePositions :
           /\ tables_metadata[t].identity = 1
           /\ TimesAttempted("FOREIGN KEY", t) = 1
           /\ TimesAttempted("SETVAL", t) = 1

(***************************************************************************)
(* translate_tsql_to_postgres (main.py 712-765).  A view definition is a   *)
(* sequence of characters; each re.sub / re.search of the function is an   *)
(* operator that scans the sequence the way the regular expression does.   *)
(***************************************************************************)
\* the characters of Latin-1 beyond ASCII that \w matches: str patterns are
\* Unicode patterns, so \w is every letter and every numeric character
WordCharsBeyondAscii ==
    { "ª","²","³","µ","¹","º","¼","½","¾","À","Á","Â","Ã",
      "Ä","Å","Æ","Ç","È","É","Ê","Ë","Ì","Í","Î","Ï","Ð",
      "Ñ","Ò","Ó","Ô","Õ","Ö","Ø","Ù","Ú","Û","Ü","Ý","Þ",
      "ß","à","á","â","ã","ä","å","æ","ç","è","é","ê","ë",
      "ì","í","î","ï","ð","ñ","ò","ó","ô","õ","ö","ø","ù",
      "ú","û","ü","ý","þ","ÿ" }

\* \w of the re module
IsWordChar(c) ==
    \/ \E i \in 1..26 : c = UpperLetters[i] \/ c = LowerLetters[i]
    \/ \E i \in 1..Len(Digits) : c = Digits[i]
    \/ c = "_"
    \/ c \in WordCharsBeyondAscii

\* the characters of Latin-1 that \s matches and str.strip() removes: space,
\* \t, \n, \v, \f, \r, U+001C to U+001F, U+0085 and U+00A0
WhitespaceChars ==
    { "\t","\n","","\f","\r","","","",""," ",""," " }

\* \s of the re module
IsSpace(c) == c \in WhitespaceChars

\* \d of the re module
IsDigit(c) == \E i \in 1..Len(Digits) : c = Digits[i]

\* the literal pat is at position i of s, ignoring case ((?i) / re.IGNORECASE)
MatchesAt(s, i, pat) ==
    /\ i >= 1
    /\ i + Len(pat) - 1 <= Len(s)
    /\ \A k \in 1..Len(pat) : LowerChar(s[i + k - 1]) = LowerChar(pat[k])

\* \b between s[i-1] and s[i]
BoundaryAt(s, i) ==
    LET before == i > 1 /\ i - 1 <= Len(s) /\ IsWordChar(s[i - 1])
        after == i >= 1 /\ i <= Len(s) /\ IsWordChar(s[i])
    IN  before # after

\* the first position from i on that is not whitespace (Len(s) + 1 if none)
RECURSIVE SkipSpaces(_, _)
SkipSpaces(s, i) ==
    IF i <= Len(s) /\ IsSpace(s[i]) THEN SkipSpaces(s, i + 1) ELSE i

\* the first position from i on that is not a digit
RECURSIVE SkipDigits(_, _)
SkipDigits(s, i) ==
    IF i <= Len(s) /\ IsDigit(s[i]) THEN SkipDigits(s, i + 1) ELSE i

\* the first position j >= i where pat is, ignoring case, or 0
FindFrom(s, i, pat) ==
    LET found == { j \in i..(Len(s) - Len(pat) + 1) : MatchesAt(s, j, pat) }
    IN  IF found = {} THEN 0
        ELSE CHOOSE j \in found : \A k \in found : j <= k

\* re.sub(r'(?i)\b' + re.escape(old) + r'\b', new, s), scanning from i:
\* the text up to the leftmost match is kept, the match is replaced and the
\* scan goes on behind it
RECURSIVE SubBounded(_, _, _, _)
SubBounded(s, i, old, new) ==
    LET found == { j \in i..Len(s) : /\ MatchesAt(s, j, old)
                                     /\ BoundaryAt(s, j)
                                     /\ BoundaryAt(s, j + Len(old)) }
    IN  IF found = {} THEN SubSeq(s, i, Len(s))
        ELSE LET m == CHOOSE j \in found : \A k \in found : j <= k
             IN  SubSeq(s, i, m - 1) \o new
                     \o SubBounded(s, m + Len(old), old, new)

\* the end of a match of WITH\s*\(.*?SCHEMABINDING.*?\) that starts at i, or 0
SchemaBindingEnd(s, i) ==
    IF ~MatchesAt(s, i, <<"W","I","T","H">>) THEN 0
    ELSE LET open == SkipSpaces(s, i + 4)
         IN  IF ~(open <= Len(s) /\ s[open] = "(") THEN 0
             ELSE LET word == FindFrom(s, open + 1,
                                       <<"S","C","H","E","M","A","B","I","N","D","I","N","G">>)
                  IN  IF word = 0 THEN 0 ELSE FindFrom(s, word + 13, <<")">>)

\* re.sub(r'(?i)WITH\s*\(.*?SCHEMABINDING.*?\)', '', tsql, flags=re.DOTALL)
RECURSIVE RemoveSchemaBinding(_, _)
RemoveSchemaBinding(s, i) ==
    LET found == { j \in i..Len(s) : SchemaBindingEnd(s, j) # 0 }
    IN  IF found = {} THEN SubSeq(s, i, Len(s))
        ELSE LET m == CHOOSE j \in found : \A k \in found : j <= k
             IN  SubSeq(s, i, m - 1)
                     \o RemoveSchemaBinding(s, SchemaBindingEnd(s, m) + 1)

\* str.strip(): what lies between the first and the last character that is
\* no whitespace
Strip(s) ==
    LET kept == { i \in DOMAIN s : ~IsSpace(s[i]) }
    IN  IF kept = {} THEN <<>>
        ELSE SubSeq(s, CHOOSE i \in kept : \A k \in kept : i <= k,
                       CHOOSE i \in kept : \A k \in kept : i >= k)

\* str.rstrip(';')
RECURSIVE RStripSemicolon(_)
RStripSemicolon(s) ==
    IF s # <<>> /\ s[Len(s)] = ";"
    THEN RStripSemicolon(SubSeq(s, 1, Len(s) - 1))
    ELSE s

\* the replacements dictionary, in its order
FunctionReplacements ==
    << <<<<"G","E","T","D","A","T","E","(",")">>, <<"N","O","W","(",")">>>>,
       <<<<"I","S","N","U","L","L","(">>, <<"C","O","A","L","E","S","C","E","(">>>>,
       <<<<"L","E","N","(">>, <<"L","E","N","G","T","H","(">>>>,
       <<<<"C","H","A","R","I","N","D","E","X","(">>, <<"S","T","R","P","O","S","(">>>>,
       <<<<"[">>, <<"\"">>>>,
       <<<<"]">>, <<"\"">>>> >>

\* for old, new in replacements.items(): tsql = re.sub(...)
RECURSIVE ApplyReplacements(_, _)
ApplyReplacements(s, n) ==
    IF n > Len(FunctionReplacements) THEN s
    ELSE ApplyReplacements(
             SubBounded(s, 1, FunctionReplacements[n][1], FunctionReplacements[n][2]),
             n + 1)

\* stands for None where the code expects a str: a list that is no string,
\* its one element being no character
None == <<"None">>

\* chr(n) for 0 <= n <= 255.  The two characters a string of this module
\* cannot hold, U+0000 and U+0060, are written by their code points.
Chr(n) ==
    LET latin1 ==
        << "","","","","","","","","\t","\n","","\f","\r","","","",
           "","","","","","","","","","","","","","",""," ",
           "!","\"","#","$","%","&","'","(",")","*","+",",","-",".","/","0",
           "1","2","3","4","5","6","7","8","9",":",";","<","=",">","?","@",
           "A","B","C","D","E","F","G","H","I","J","K","L","M","N","O","P",
           "Q","R","S","T","U","V","W","X","Y","Z","[","\\","]","^","_","U+0060",
           "a","b","c","d","e","f","g","h","i","j","k","l","m","n","o","p",
           "q","r","s","t","u","v","w","x","y","z","{","|","}","~","","",
           "","","","","","","","","","","","","","","","",
           "","","","","","","","","","","","","","",""," ",
           "¡","¢","£","¤","¥","¦","§","¨","©","ª","«","¬","­","®","¯","°",
           "±","²","³","´","µ","¶","·","¸","¹","º","»","¼","½","¾","¿","À",
           "Á","Â","Ã","Ä","Å","Æ","Ç","È","É","Ê","Ë","Ì","Í","Î","Ï","Ð",
           "Ñ","Ò","Ó","Ô","Õ","Ö","×","Ø","Ù","Ú","Û","Ü","Ý","Þ","ß","à",
           "á","â","ã","ä","å","æ","ç","è","é","ê","ë","ì","í","î","ï","ð",
           "ñ","ò","ó","ô","õ","ö","÷","ø","ù","ú","û","ü","ý","þ","ÿ" >>
    IN  IF n = 0 THEN "U+0000" ELSE latin1[n]

\* str.isidentifier() on the characters of Latin-1: a letter or "_", then
\* letters, "_", digits and U+00B7
IsIdentifier(name) ==
    LET IsStart(c) == /\ IsWordChar(c)
                      /\ ~IsDigit(c)
                      /\ c \notin {"²", "³", "¹", "¼", "½", "¾"}
    IN  /\ name # <<>>
        /\ IsStart(name[1])
        /\ \A i \in 2..Len(name) :
               IsStart(name[i]) \/ IsDigit(name[i]) \/ name[i] = "·"

\* int(name) for the name of \g<name> when it is no identifier, as far as
\* parse_template tells the numbers apart: 0, 1, 2 for every larger number
\* (the pattern has one group), and -1 when int raises ValueError or the
\* number is negative.  int takes whitespace around the number (U+001C to
\* U+001F are none for it), a sign, and single underscores between digits.
GroupIndex(name) ==
    LET kept == { i \in DOMAIN name :
                    name[i] \notin WhitespaceChars \ {"", "", "", ""} }
        Number(digits, negative) ==
            IF \/ digits = <<>>
               \/ \E i \in DOMAIN digits :
                      /\ ~IsDigit(digits[i])
                      /\ ~(/\ digits[i] = "_"
                           /\ i > 1
                           /\ i < Len(digits)
                           /\ IsDigit(digits[i - 1])
                           /\ IsDigit(digits[i + 1]))
            THEN -1
            ELSE IF \A i \in DOMAIN digits : digits[i] \in {"0", "_"} THEN 0
            ELSE IF negative THEN -1
            ELSE IF /\ digits[Len(digits)] = "1"
                    /\ \A i \in 1..(Len(digits) - 1) : digits[i] \in {"0", "_"}
            THEN 1
            ELSE 2
        Signed(stripped) ==
            IF stripped # <<>> /\ stripped[1] \in {"+", "-"}
            THEN Number(Tail(stripped), stripped[1] = "-")
            ELSE Number(stripped, FALSE)
    IN  IF kept = {} THEN -1
        ELSE Signed(SubSeq(name, CHOOSE i \in kept : \A k \in kept : i <= k,
                                 CHOOSE i \in kept : \A k \in kept : i >= k))

\* parse_template and expand_template of the re module for the replacement
\* template t from position i on, for a pattern with one group: whole is
\* the text of the match, group1 the text of its group ('' when the group
\* took no part).  The result is the expanded text, or the exception the
\* first bad escape raises.  A template of translate_tsql_to_postgres ends
\* with a quote, so a backslash is never its last character.
RECURSIVE ExpandTemplate(_, _, _, _)
ExpandTemplate(t, i, whole, group1) ==
    LET escapes == { j \in i..Len(t) : t[j] = "\\" }
        error == [exception |-> "re.error", value |-> <<>>]
        At(k) == IF k <= Len(t) THEN t[k] ELSE ""
        IsOctal(c) == c \in {"0", "1", "2", "3", "4", "5", "6", "7"}
        Value(c) == CHOOSE d \in 0..9 : Digits[d + 1] = c
        \* the escape at p gives out, and the template goes on at k
        Then(p, out, k) ==
            LET Joined(rest) ==
                    IF rest.exception # "none" THEN rest
                    ELSE [exception |-> "none",
                          value |-> SubSeq(t, i, p - 1) \o out \o rest.value]
            IN  Joined(ExpandTemplate(t, k, whole, group1))
        \* \g<name> at p, closed at q
        Group(p, q, name) ==
            LET Numbered(index) ==
                    IF index = 0 THEN Then(p, whole, q + 1)
                    ELSE IF index = 1 THEN Then(p, group1, q + 1)
                    ELSE error
            IN  IF name = <<>> THEN error
                ELSE IF IsIdentifier(name)
                THEN [exception |-> "IndexError", value |-> <<>>]
                ELSE Numbered(GroupIndex(name))
        \* \ooo at p for three octal digits
        Octal(p, code) ==
            IF code > 255 THEN error ELSE Then(p, <<Chr(code)>>, p + 4)
        \* the escape at p, followed by the characters c1, c2, c3
        Escape(p, c1, c2, c3) ==
            LET closing == { j \in (p + 3)..Len(t) : t[j] = ">" }
                Closed(q) == Group(p, q, SubSeq(t, p + 3, q - 1))
            IN  IF p = Len(t) THEN error
                ELSE IF c1 = "g"
                THEN IF c2 # "<" \/ closing = {} THEN error
                     ELSE Closed(CHOOSE j \in closing : \A k \in closing : j <= k)
                ELSE IF c1 = "0"
                THEN IF IsOctal(c2) /\ IsOctal(c3)
                     THEN Octal(p, 8 * Value(c2) + Value(c3))
                     ELSE IF IsOctal(c2) THEN Then(p, <<Chr(Value(c2))>>, p + 3)
                     ELSE Then(p, <<Chr(0)>>, p + 2)
                ELSE IF IsDigit(c1)
                THEN IF IsDigit(c2)
                     THEN IF IsOctal(c1) /\ IsOctal(c2) /\ IsOctal(c3)
                          THEN Octal(p, 64 * Value(c1) + 8 * Value(c2) + Value(c3))
                          ELSE error
                     ELSE IF c1 = "1" THEN Then(p, group1, p + 2)
                     ELSE error
                ELSE IF c1 = "a" THEN Then(p, <<Chr(7)>>, p + 2)
                ELSE IF c1 = "b" THEN Then(p, <<Chr(8)>>, p + 2)
                ELSE IF c1 = "f" THEN Then(p, <<Chr(12)>>, p + 2)
                ELSE IF c1 = "n" THEN Then(p, <<Chr(10)>>, p + 2)
                ELSE IF c1 = "r" THEN Then(p, <<Chr(13)>>, p + 2)
                ELSE IF c1 = "t" THEN Then(p, <<Chr(9)>>, p + 2)
                ELSE IF c1 = "v" THEN Then(p, <<Chr(11)>>, p + 2)
                ELSE IF c1 = "\\" THEN Then(p, <<"\\">>, p + 2)
                ELSE IF \E k \in 1..26 : c1 \in {UpperLetters[k], LowerLetters[k]}
                THEN error
                ELSE Then(p, <<"\\", c1>>, p + 2)
        First(p) == Escape(p, At(p + 1), At(p + 2), At(p + 3))
    IN  IF escapes = {}
        THEN [exception |-> "none", value |-> SubSeq(t, i, Len(t))]
        ELSE First(CHOOSE j \in escapes : \A k \in escapes : j <= k)

\* the positions that two optional characters first and second, in this
\* order at p, can end at, in the order the pattern tries them: both taken,
\* one taken, none taken
OptionalEnds(s, p, first, second) ==
    LET Has(k, c) == k <= Len(s) /\ s[k] = c
    IN  (IF Has(p, first) /\ Has(p + 1, second) THEN <<p + 2>> ELSE <<>>)
        \o (IF Has(p, first) \/ Has(p, second) THEN <<p + 1>> ELSE <<>>)
        \o <<p>>

\* the position after a match of \[?"?lit"?\]? that starts at p, or 0 when
\* there is none (lit is not empty).  The pattern gives back an opening
\* character it took when lit does not follow it; at the end of the pattern
\* it takes every closing character that is there.
QuotedNameEnd(s, p, lit) ==
    LET First(starts, matching) ==
            IF matching = {} THEN 0
            ELSE OptionalEnds(s,
                     starts[CHOOSE k \in matching : \A o \in matching : k <= o]
                         + Len(lit),
                     "\"", "]")[1]
        From(starts) ==
            First(starts, { k \in DOMAIN starts :
                                lit # <<>> /\ MatchesAt(s, starts[k], lit) })
    IN  From(OptionalEnds(s, p, "[", "\""))

\* the position of the dot that ends group 1, (\[?"?schema"?\]?\.), in the
\* match of the whole pattern that starts at p, or 0 when the group takes no
\* part in it: the first way, in the order the pattern tries them, to open,
\* match and close the schema such that a dot and the name follow
SchemaDot(s, p, schema, name) ==
    LET Closes(q) == OptionalEnds(s, q + Len(schema), "\"", "]")
        Follows(e) == /\ e <= Len(s)
                      /\ s[e] = "."
                      /\ QuotedNameEnd(s, e + 1, name) # 0
        First(starts, ways) ==
            IF ways = {} THEN 0
            ELSE LET Dot(way) == Closes(starts[way[1]])[way[2]]
                 IN  Dot(CHOOSE w \in ways :
                             \A o \in ways :
                                 \/ w[1] < o[1]
                                 \/ w[1] = o[1] /\ w[2] <= o[2])
        From(starts) ==
            First(starts,
                  { w \in (1..3) \X (1..3) :
                        /\ schema # <<>>
                        /\ w[1] \in DOMAIN starts
                        /\ MatchesAt(s, starts[w[1]], schema)
                        /\ w[2] \in DOMAIN Closes(starts[w[1]])
                        /\ Follows(Closes(starts[w[1]])[w[2]]) })
    IN  From(OptionalEnds(s, p, "[", "\""))

\* the position after a match of (\[?"?schema"?\]?\.)? \[?"?name"?\]? that
\* starts at p, or 0: the schema prefix is taken when the name follows it
IdentifierEnd(s, p, schema, name) ==
    LET End(dot) == IF dot # 0 THEN QuotedNameEnd(s, dot + 1, name)
                    ELSE QuotedNameEnd(s, p, name)
    IN  End(SchemaDot(s, p, schema, name))

\* pattern.sub(replacement_str, tsql), scanning from i
\* every match is replaced by the expansion of the template
\* replacement_str, which parses without error; group 1 of the pattern is
\* the schema prefix with its dot
RECURSIVE SubIdentifier(_, _, _, _, _)
SubIdentifier(s, i, schema, name, replacement_str) ==
    LET found == { j \in i..Len(s) : IdentifierEnd(s, j, schema, name) # 0 }
        \* the match from m to end - 1; dot is where group 1 ends
        Replace(m, end, dot) ==
            SubSeq(s, i, m - 1)
                \o ExpandTemplate(replacement_str, 1, SubSeq(s, m, end - 1),
                                  IF dot # 0 THEN SubSeq(s, m, dot)
                                  ELSE <<>>).value
                \o SubIdentifier(s, end, schema, name, replacement_str)
        Match(m) == Replace(m, IdentifierEnd(s, m, schema, name),
                            SchemaDot(s, m, schema, name))
    IN  IF found = {} THEN SubSeq(s, i, Len(s))
        ELSE Match(CHOOSE j \in found : \A k \in found : j <= k)

dbo == <<"d","b","o">>
public == <<"p","u","b","l","i","c">>

\* f'"{translated_schema}"."{translated_name}"', 'public' standing for 'dbo'
ReplacementStr(translated_schema, translated_name) ==
    <<"\"">> \o (IF translated_schema = dbo THEN public ELSE translated_schema)
    \o <<"\"", ".", "\"">> \o translated_name \o <<"\"">>

\* for original_key, translated_key in all_migrated_names.items(): ...
\* an item is <<original, translated>>, each a record [schema, name] that
\* stands for the key schema.name.  A key splits on its dots (736, 737), so
\* the unpacking raises ValueError when the schema or the name holds one;
\* pattern.sub (751) parses a replacement that holds a backslash before it
\* looks for a match and raises what the template raises.  The result is
\* the text after every replacement, or the first exception.
RECURSIVE ReplaceIdentifiers(_, _)
ReplaceIdentifiers(s, names) ==
    LET Dotted(key) == \/ \E k \in DOMAIN key.schema : key.schema[k] = "."
                       \/ \E k \in DOMAIN key.name : key.name[k] = "."
        Substitute(original_key, replacement_str) ==
            LET Parsed(template) ==
                    IF template.exception # "none" THEN template
                    ELSE ReplaceIdentifiers(
                             SubIdentifier(s, 1, original_key.schema,
                                           original_key.name, replacement_str),
                             Tail(names))
            IN  Parsed(ExpandTemplate(replacement_str, 1, <<>>, <<>>))
        Item(original_key, translated_key) ==
            IF Dotted(original_key) \/ Dotted(translated_key)
            THEN [exception |-> "ValueError", value |-> <<>>]
            ELSE Substitute(original_key, ReplacementStr(translated_key.schema,
                                                         translated_key.name))
    IN  IF names = <<>> THEN [exception |-> "none", value |-> s]
        ELSE Item(names[1][1], names[1][2])

\* TOP\s+\(?\s*(\d+)\s*\)? matches at i: the position of its digits, or 0
TopDigitsAt(s, i) ==
    IF ~(MatchesAt(s, i, <<"T","O","P">>) /\ i + 3 <= Len(s) /\ IsSpace(s[i + 3]))
    THEN 0
    ELSE LET j == SkipSpaces(s, i + 3)
             j2 == IF j <= Len(s) /\ s[j] = "(" THEN j + 1 ELSE j
             j3 == SkipSpaces(s, j2)
         IN  IF j3 <= Len(s) /\ IsDigit(s[j3]) THEN j3 ELSE 0

\* re.search(r'(?i)TOP\s+\(?\s*(\d+)\s*\)?', tsql): where the match starts, or 0
TopSearch(s, i) ==
    LET found == { j \in i..Len(s) : TopDigitsAt(s, j) # 0 }
    IN  IF found = {} THEN 0
        ELSE CHOOSE j \in found : \A k \in found : j <= k

\* the start of the whitespace that ends just before position i
RECURSIVE SpacesStart(_, _)
SpacesStart(s, i) ==
    IF i > 1 /\ IsSpace(s[i - 1]) THEN SpacesStart(s, i - 1) ELSE i

\* top_match = re.search(...); if top_match: remove the first TOP clause
\* (re.sub of \s*TOP\s+\(?\s*\d+\s*\)?\s* by ' ', count=1), and
\* if 'LIMIT' not in tsql.upper(): tsql += f' LIMIT {limit}'
TranslateTop(s) ==
    LET top == TopSearch(s, 1)
    IN  IF top = 0 THEN s
        ELSE LET digits == TopDigitsAt(s, top)
                 e == SkipDigits(s, digits)
                 e1 == SkipSpaces(s, e)
                 e2 == IF e1 <= Len(s) /\ s[e1] = ")" THEN e1 + 1 ELSE e1
                 e3 == SkipSpaces(s, e2)
                 limit == SubSeq(s, digits, e - 1)
                 removed == SubSeq(s, 1, SpacesStart(s, top) - 1) \o <<" ">>
                            \o SubSeq(s, e3, Len(s))
             IN  IF FindFrom(removed, 1, <<"L","I","M","I","T">>) = 0
                 THEN removed \o <<" ","L","I","M","I","T"," ">> \o limit
                 ELSE removed

\* the first position a >= i where \s+AS\s+ can put its AS, or 0
FindAs(s, i) ==
    LET found == { j \in i..(Len(s) - 2) : /\ j > 1
                                           /\ IsSpace(s[j - 1])
                                           /\ MatchesAt(s, j, <<"A","S">>)
                                           /\ IsSpace(s[j + 2]) }
    IN  IF found = {} THEN 0
        ELSE CHOOSE j \in found : \A k \in found : j <= k

\* the position after a match of CREATE\s+VIEW\s+.*?\s+AS\s+ that starts at
\* c, or 0.  The whitespace after VIEW is taken whole first; only when no AS
\* follows then is one of its characters left to the \s+ before AS.
CreateViewEnd(s, c) ==
    IF ~(MatchesAt(s, c, <<"C","R","E","A","T","E">>)
         /\ c + 6 <= Len(s) /\ IsSpace(s[c + 6]))
    THEN 0
    ELSE LET v == SkipSpaces(s, c + 6)
         IN  IF ~(MatchesAt(s, v, <<"V","I","E","W">>)
                  /\ v + 4 <= Len(s) /\ IsSpace(s[v + 4]))
             THEN 0
             ELSE LET r == SkipSpaces(s, v + 4)
                      a == FindAs(s, r + 1)
                  IN  IF a # 0 THEN SkipSpaces(s, a + 2)
                      ELSE IF /\ r - (v + 4) >= 2
                              /\ MatchesAt(s, r, <<"A","S">>)
                              /\ r + 2 <= Len(s)
                              /\ IsSpace(s[r + 2])
                           THEN SkipSpaces(s, r + 2)
                           ELSE 0

\* the last position c <= i where CREATE VIEW ... AS matches, or 0 (^.* is greedy)
LastCreateView(s, i) ==
    LET found == { c \in 1..i : CreateViewEnd(s, c) # 0 }
    IN  IF found = {} THEN 0
        ELSE CHOOSE c \in found : \A k \in found : c >= k

\* re.sub(r'(?i)^.*CREATE\s+VIEW\s+.*?\s+AS\s+', '', tsql, flags=re.DOTALL)
RemoveCreateView(s) ==
    LET c == LastCreateView(s, Len(s))
    IN  IF c = 0 THEN s ELSE SubSeq(s, CreateViewEnd(s, c), Len(s))

\* the text the function returns, or the exception it raises: TypeError
\* of the first re.sub (718) when tsql is None, and what the loop over the
\* names raises
translate_tsql_to_postgres(tsql, all_migrated_names) ==
    LET without_go == SubBounded(tsql, 1, <<"G","O">>, <<>>)
        cleaned == RStripSemicolon(Strip(RemoveSchemaBinding(without_go, 1)))
        replaced == ApplyReplacements(cleaned, 1)
        Renamed(result) ==
            IF result.exception # "none" THEN result
            ELSE [exception |-> "none",
                  value |-> Strip(RemoveCreateView(TranslateTop(result.value)))]
    IN  IF tsql = None THEN [exception |-> "TypeError", value |-> <<>>]
        ELSE Renamed(ReplaceIdentifiers(replaced, all_migrated_names))

(***************************************************************************)
(* Specification of the translation of one view definition.  The           *)
(* definitions are SELECT statements over the table dbo.Students or over   *)
(* the table dbo."q, whose name begins with a quote, with or without a TOP *)
(* clause, a CREATE VIEW header and a closing semicolon, and               *)
(* the NULL that INFORMATION_SCHEMA.VIEWS holds for a view whose text it   *)
(* does not show (main.py 295 stores VIEW_DEFINITION as it is).            *)
(***************************************************************************)
Students == <<"S","t","u","d","e","n","t","s">>
Student == <<"S","t","u","d","e","n","t">>

ViewHeaders == { <<>>, <<"C","R","E","A","T","E"," ","V","I","E","W"," ","v"," ","A","S"," ">> }
TopClauses == { <<>>, <<"T","O","P"," ","5"," ">>, <<"T","O","P"," ","(","5",")"," ">> }
ColumnLists == { <<"*">>, <<"N","a","m","e">>,
                 <<"C","r","e","d","i","t","L","i","m","i","t">> }
QuotedTable == <<"\"","q">>
TableReferences ==
    { <<"[">> \o dbo \o <<"]",".","[">> \o Students \o <<"]">>, Students,
      dbo \o <<".">> \o QuotedTable, <<"[">> \o QuotedTable \o <<"]">> }
Terminators == { <<>>, <<";">> }

ViewDefinitions ==
    { h \o <<"S","E","L","E","C","T"," ">> \o t \o c
        \o <<" ","F","R","O","M"," ">> \o r \o e :
      h \in ViewHeaders, t \in TopClauses, c \in ColumnLists,
      r \in TableReferences, e \in Terminators }
    \cup {None}

\* all_names_map of migrate_views: original table key -> translated table key
\* translated table names whose replacement string is a template with an
\* escape: a group reference, the whole match, an octal escape, a kept
\* backslash, a bad escape, a group name, and a name with a dot
TemplateNames ==
    { <<"S","\\","1","t">>, <<"\\","g","<","0",">">>, <<"\\","1","0","1">>,
      <<"S","\\","\\","t">>, <<"S","t","\\">>, <<"S","\\","d">>,
      <<"\\","g","<","t",">">>, <<"S",".","t">> }

NameMaps ==
    { <<>>,
      << <<[schema |-> dbo, name |-> Students], [schema |-> dbo, name |-> Student]>> >> }
    \cup { << <<[schema |-> dbo, name |-> Students], [schema |-> public, name |-> t]>> >> :
              t \in {Student} \cup TemplateNames }
    \cup { << <<[schema |-> dbo, name |-> QuotedTable], [schema |-> dbo, name |-> <<"r">>]>> >> }

TsqlInit ==
    /\ TrIdle
    /\ TsIdle
    /\ ColIdle
    /\ RunIdle
    /\ ViewIdle
    /\ ValIdle
    /\ ApiIdle
    /\ SeqIdle
    /\ TrkIdle
    /\ DefIdle
    /\ ConIdle
    /\ MetaIdle
    /\ TRANSLATION_DICT = <<>>
    /\ definition \in ViewDefinitions
    /\ all_names_map \in NameMaps
    /\ pg_definition = <<>>
    /\ tsql_pc = "definition"

\* pg_definition = translate_tsql_to_postgres(definition, all_names_map):
\* the call returns, or it raises and pg_definition keeps its value
TranslateView ==
    /\ tsql_pc = "definition"
    /\ LET Ends(result) ==
               IF result.exception = "none"
               THEN /\ pg_definition' = result.value
                    /\ tsql_pc' = "translated"
               ELSE /\ pg_definition' = pg_definition
                    /\ tsql_pc' = result.exception
       IN  Ends(translate_tsql_to_postgres(definition, all_names_map))
    /\ UNCHANGED <<notTsql, definition, all_names_map>>

TsqlNext == TranslateView

SpecTsql == TsqlInit /\ [][TsqlNext]_vars

\* s ends with the characters of suffix
EndsWith(s, suffix) ==
    /\ Len(suffix) <= Len(s)
    /\ SubSeq(s, Len(s) - Len(suffix) + 1, Len(s)) = suffix

\* the number n of the first TOP n clause of s
TopNumber(s) ==
    SubSeq(s, TopDigitsAt(s, TopSearch(s, 1)),
           SkipDigits(s, TopDigitsAt(s, TopSearch(s, 1))) - 1)

\* C19: whenever the view body has a clause TOP n before the column list,
\* the translated query has no TOP clause left and ends in LIMIT n; SELECT
\* TOP 5 * FROM [dbo].[Students] with dbo.Students -> public.Student becomes
\* a query on "public"."Student" ending in LIMIT 5.
C19_TopBecomesTrailingLimit ==
    (tsql_pc = "translated" /\ TopSearch(definition, 1) # 0) =>
        /\ TopSearch(pg_definition, 1) = 0
        /\ EndsWith(pg_definition,
                    <<" ","L","I","M","I","T"," ">> \o TopNumber(definition))
        /\ (/\ definition = <<"S","E","L","E","C","T"," ","T","O","P"," ","5"," ","*",
                        " ","F","R","O","M"," ","[","d","b","o","]",".","[">>
                      \o Students \o <<"]">>
            /\ all_names_map # <<>>
            /\ all_names_map[1][2] = [schema |-> public, name |-> Student])
           => pg_definition =
                  <<"S","E","L","E","C","T"," ","*"," ","F","R","O","M"," ",
                    "\"","p","u","b","l","i","c","\"",".","\"">> \o Student
                  \o <<"\""," ","L","I","M","I","T"," ","5">>

(***************************************************************************)
(* migrate_views (main.py 768-851) and the report of the run by its        *)
(* caller (main.py 973-980, api.py 381-435).  A view is known by its       *)
(* number; views_metadata is the list of the items <<view_key,             *)
(* definition>> of the dictionary, in its order.  The outcome of each      *)
(* CREATE OR REPLACE VIEW is chosen by the target database.                *)
(***************************************************************************)
ViewKeys == 1..NumViews

\* the view key "dbo.v<n>" as schema and name
ViewName(v) == <<"v">> \o IntToStr(v)

\* the definition of view v as INFORMATION_SCHEMA.VIEWS shows it; where it
\* shows none, views_metadata[view_key] is None (main.py 295)
ViewSql(v) ==
    <<"C","R","E","A","T","E"," ","V","I","E","W"," ">> \o ViewName(v)
    \o <<" ","A","S"," ","S","E","L","E","C","T"," ","T","O","P"," ">>
    \o IntToStr(v) \o <<" ","*"," ","F","R","O","M"," ">> \o Students

\* all_names_map: the tables, then the views of views_metadata, whose keys
\* are view_keys (main.py 774-784), for the translated name of the table
\* dbo.Students
ViewNamesMap(translated_name, view_keys) ==
    << <<[schema |-> dbo, name |-> Students],
         [schema |-> dbo, name |-> translated_name]>> >>
    \o [k \in DOMAIN view_keys |->
            <<[schema |-> dbo, name |-> ViewName(view_keys[k])],
              [schema |-> dbo, name |-> ViewName(view_keys[k])]>>]

\* the translated names of dbo.Students in the runs of migrate_views: one
\* without a backslash, one with a bad escape
ViewTableNames == { Student, <<"S","\\","d">> }

\* what translate_tsql_to_postgres(definition, all_names_map) gives (805)
\* for each definition and each names map of a run, as a table; a run has
\* the views 1 to n
PgDefinitions ==
    [tsql \in { ViewSql(v) : v \in ViewKeys } \cup {None},
     translated_name \in ViewTableNames,
     n \in 0..NumViews |->
         translate_tsql_to_postgres(
             tsql, ViewNamesMap(translated_name, [k \in 1..n |-> k]))]

\* str(e) of the psycopg2.Error a CREATE VIEW can raise
ViewErrorTexts == {"relation does not exist", "syntax error"}

\* max_attempts = len(views_to_migrate) + 1
max_attempts == Len(views_metadata) + 1

\* Every failed attempt is entered in the error report.
IsAnyAttempt(n) == n >= 0

\* if attempt == max_attempts - 1
IsFinalAttempt(n) == n = max_attempts - 1

\* main logs MIGRATION PROCESS COMPLETED SUCCESSFULLY (main.py 975);
\* run_migration calls emit_complete (api.py 431); migrate_views returns
\* nothing to either of them
OutcomeAfterViews(mode) ==
    IF mode = "cli" THEN "success" ELSE "complete"

ViewsInit ==
    /\ TrIdle
    /\ TsIdle
    /\ ColIdle
    /\ RunIdle
    /\ definition = <<>>
    /\ pg_definition = <<>>
    /\ tsql_pc = "idle"
    /\ ValIdle
    /\ ApiIdle
    /\ SeqIdle
    /\ TrkIdle
    /\ DefIdle
    /\ ConIdle
    /\ MetaIdle
    /\ TRANSLATION_DICT = <<>>
    /\ views_metadata \in
           { [i \in 1..n |-> <<i, IF i \in nulls THEN None ELSE ViewSql(i)>>] :
                 n \in 0..NumViews, nulls \in SUBSET ViewKeys }
    /\ views_to_migrate = [i \in DOMAIN views_metadata |-> views_metadata[i][1]]
    /\ all_names_map \in { ViewNamesMap(t, views_to_migrate) : t \in ViewTableNames }
    /\ remaining_views = <<>>
    /\ view_pos = 0
    /\ attempt = 0
    /\ created_views = {}
    /\ view_errors = <<>>
    /\ last_error = [v \in 1..Len(views_metadata) |-> "none"]
    /\ views_pc = "loop"
    /\ reported_outcome = "none"

\* for attempt in range(max_attempts): if not views_to_migrate: break;
\* remaining_views = []
StartPass ==
    /\ views_pc = "loop"
    /\ attempt < max_attempts
    /\ views_to_migrate # <<>>
    /\ remaining_views' = <<>>
    /\ view_pos' = 1
    /\ views_pc' = "pass"
    /\ UNCHANGED <<notView, views_metadata, views_to_migrate, attempt, created_views,
                   view_errors, last_error, reported_outcome>>

\* the outer loop is left: the range is used up, or nothing is pending
LeaveLoop ==
    /\ views_pc = "loop"
    /\ attempt >= max_attempts \/ views_to_migrate = <<>>
    /\ views_pc' = "report"
    /\ UNCHANGED <<notView, views_metadata, views_to_migrate, remaining_views,
                   view_pos, attempt, created_views, view_errors, last_error,
                   reported_outcome>>

\* the definition is translated and pg_cursor.execute(create_view_sql)
\* succeeds
CreateViewSucceeds ==
    /\ views_pc = "pass"
    /\ view_pos <= Len(views_to_migrate)
    /\ PgDefinitions[views_metadata[views_to_migrate[view_pos]][2],
                     all_names_map[1][2].name,
                     Len(views_metadata)].exception = "none"
    /\ created_views' = created_views \cup {views_to_migrate[view_pos]}
    /\ view_pos' = view_pos + 1
    /\ UNCHANGED <<notView, views_metadata, views_to_migrate, remaining_views,
                   attempt, view_errors, last_error, views_pc, reported_outcome>>

\* the definition is translated and pg_cursor.execute(create_view_sql)
\* raises psycopg2.Error: the view is kept for the next pass; on the final
\* attempt the error is logged, added to view_errors and answered by
\* ROLLBACK
CreateViewFails ==
    /\ views_pc = "pass"
    /\ view_pos <= Len(views_to_migrate)
    /\ \E error \in ViewErrorTexts :
           LET view_key == views_to_migrate[view_pos]
               Fails(result) ==
                   /\ result.exception = "none"
                   /\ remaining_views' = Append(remaining_views, view_key)
                   /\ last_error' = [last_error EXCEPT ![view_key] = error]
                   /\ view_errors' =
                          IF IsFinalAttempt(attempt)
                          THEN Append(view_errors,
                                      [view |-> view_key,
                                       original_sql |-> views_metadata[view_key][2],
                                       translated_sql |-> result.value,
                                       error |-> error])
                          ELSE view_errors
           IN  Fails(PgDefinitions[views_metadata[view_key][2],
                                   all_names_map[1][2].name,
                                   Len(views_metadata)])
    /\ view_pos' = view_pos + 1
    /\ UNCHANGED <<notView, views_metadata, views_to_migrate, attempt, created_views,
                   views_pc, reported_outcome>>

\* translate_tsql_to_postgres raises inside the try (805): TypeError,
\* ValueError, re.error and IndexError are no psycopg2.Error, so the except
\* clause (814) does not take them and migrate_views ends with the exception,
\* the view and those after it in the pass still pending
CreateViewRaises ==
    /\ views_pc = "pass"
    /\ view_pos <= Len(views_to_migrate)
    /\ PgDefinitions[views_metadata[views_to_migrate[view_pos]][2],
                     all_names_map[1][2].name,
                     Len(views_metadata)].exception # "none"
    /\ views_pc' = "raised"
    /\ UNCHANGED <<notView, views_metadata, views_to_migrate, remaining_views,
                   view_pos, attempt, created_views, view_errors, last_error,
                   reported_outcome>>

\* the inner loop is over: if no view was created in the pass, every
\* remaining view gets an entry and the loop is left; otherwise the
\* remaining views are the next pass
EndPass ==
    /\ views_pc = "pass"
    /\ view_pos > Len(views_to_migrate)
    /\ IF Len(remaining_views) = Len(views_to_migrate)
       THEN /\ view_errors' =
                   view_errors \o
                       [i \in 1..Len(remaining_views) |->
                           [view |-> remaining_views[i],
                            error |-> "Could not resolve dependencies or circular dependency detected."]]
            /\ views_pc' = "report"
            /\ UNCHANGED <<views_to_migrate, attempt>>
       ELSE /\ views_to_migrate' = remaining_views
            /\ attempt' = attempt + 1
            /\ views_pc' = "loop"
            /\ UNCHANGED view_errors
    /\ UNCHANGED <<notView, views_metadata, remaining_views, view_pos, created_views,
                   last_error, reported_outcome>>

\* the final report: view_errors.json is written when there are entries,
\* and migrate_views returns None
ReturnFromViews ==
    /\ views_pc = "report"
    /\ views_pc' = "returned"
    /\ UNCHANGED <<notView, views_metadata, views_to_migrate, remaining_views,
                   view_pos, attempt, created_views, view_errors, last_error,
                   reported_outcome>>

\* the views that were not created
NotCreated == SelectSeq(views_metadata, LAMBDA item : item[1] \notin created_views)

\* main: the final log after migrate_views; an exception of migrate_views
\* is logged as a critical error instead (main.py 979-980)
MainReports ==
    /\ views_pc \in {"returned", "raised"}
    /\ IF views_pc = "returned"
       THEN /\ reported_outcome' = OutcomeAfterViews("cli")
            /\ views_pc' = "reported"
       ELSE /\ reported_outcome' = "critical"
            /\ views_pc' = "failed"
    /\ UNCHANGED <<notView, views_metadata, views_to_migrate, remaining_views,
                   view_pos, attempt, created_views, view_errors, last_error>>

\* run_migration: validation, then emit_complete; an exception of the
\* validation or of the closing of the connections ends in emit_error, and
\* so does an exception of migrate_views (api.py 433-435)
RunMigrationReports ==
    /\ views_pc \in {"returned", "raised"}
    /\ IF views_pc = "returned"
       THEN /\ \E raised \in BOOLEAN :
                   reported_outcome' = IF raised THEN "error"
                                       ELSE OutcomeAfterViews("api")
            /\ views_pc' = "reported"
       ELSE /\ reported_outcome' = "error"
            /\ views_pc' = "failed"
    /\ UNCHANGED <<notView, views_metadata, views_to_migrate, remaining_views,
                   view_pos, attempt, created_views, view_errors, last_error>>

ViewsNext ==
    \/ StartPass
    \/ LeaveLoop
    \/ CreateViewSucceeds
    \/ CreateViewFails
    \/ CreateViewRaises
    \/ EndPass
    \/ ReturnFromViews
    \/ MainReports
    \/ RunMigrationReports

SpecViews == ViewsInit /\ [][ViewsNext]_vars

\* every step of migrate_views and of its caller is eventually taken
SpecViewsFair == SpecViews /\ WF_vars(ViewsNext)

(***************************************************************************)
(* Claims about migrate_views, checked under SpecViews and SpecViewsFair.  *)
(***************************************************************************)
\* the elements of a sequence
Range(s) == { s[i] : i \in DOMAIN s }

\* migrate_views has left its loop: by break, with the range used up, or
\* with an exception
ViewLoopOver == views_pc \in {"report", "returned", "reported", "raised", "failed"}

\* what holds of the loop of migrate_views in every state
ViewLoopInvariant ==
    views_pc # "idle" =>
        \* a pass is one of at most (number of views + 1)
        /\ views_pc = "pass" => attempt + 1 <= Len(views_metadata) + 1
        \* every pass that did not end the loop created a view
        /\ views_pc \in {"loop", "pass"} =>
               Len(views_to_migrate) <= Len(views_metadata) - attempt
        \* the loop ends when nothing is pending or a full pass created nothing
        /\ ViewLoopOver =>
               \/ views_to_migrate = <<>>
               \/ view_pos > Len(views_to_migrate) /\ remaining_views = views_to_migrate
        \* and it goes on otherwise
        /\ (views_pc = "loop" /\ views_to_migrate # <<>>) => attempt < max_attempts
        \* a created view is not in what is still to be tried
        /\ \A v \in created_views :
               /\ v \notin Range(remaining_views)
               /\ views_pc = "loop" => v \notin Range(views_to_migrate)
               /\ views_pc = "pass" =>
                      \A i \in view_pos..Len(views_to_migrate) : views_to_migrate[i] # v

\* C12: the view creation loop terminates for every set of views and every
\* pattern of creation failures, after at most (number of views + 1)
\* passes; it ends exactly when the pending set is empty or a full pass
\* created no view, and a created view is never attempted again.
C12_ViewLoopTerminates ==
    /\ []ViewLoopInvariant
    /\ <>(views_pc \in {"reported", "failed"})

\* C13: every view that is not created when migrate_views ends has an
\* entry in the view error report with the view key, its original SQL, its
\* translated SQL and the error raised by its last creation attempt.
C13_UnresolvedViewsFullyReported ==
    views_pc \in {"returned", "reported"} =>
        \A v \in { views_metadata[k][1] : k \in DOMAIN views_metadata } \ created_views :
            \E i \in DOMAIN view_errors :
                /\ view_errors[i].view = v
                /\ {"original_sql", "translated_sql", "error"} \subseteq DOMAIN view_errors[i]
                /\ view_errors[i].original_sql = views_metadata[v][2]
                /\ view_errors[i].translated_sql =
                       translate_tsql_to_postgres(views_metadata[v][2],
                                                  all_names_map).value
                /\ view_errors[i].error = last_error[v]

\* the entries of the error report for a view
ErrorEntries(v) == { i \in DOMAIN view_errors : view_errors[i].view = v }

\* C30: when migrate_views returns, every view is in exactly one of two
\* groups: the created views, or the error report with exactly one entry;
\* no created view has an entry, also one that failed in an early pass and
\* was created in a later one.
C30_CreatedOrReportedOnce ==
    views_pc \in {"returned", "reported"} =>
        \A v \in { views_metadata[k][1] : k \in DOMAIN views_metadata } :
            IF v \in created_views
            THEN ErrorEntries(v) = {}
            ELSE Cardinality(ErrorEntries(v)) = 1

\* view 2 failed in the first pass and was created in the second, view 3
\* failed in every pass and has the one entry of the report
C30_Witness ==
    /\ views_pc = "returned"
    /\ Len(views_metadata) = 3
    /\ created_views = {1, 2}
    /\ last_error[2] # "none"
    /\ Len(view_errors) = 1
    /\ view_errors[1].view = 3

\* C14: a run in which a view failed all its creation attempts is not
\* reported as a success: neither by the final log of main nor by the
\* complete event of run_migration.
C14_FailedViewsAreNotSuccess ==
    (views_pc = "reported" /\ NotCreated # <<>>) =>
        reported_outcome \notin {"success", "complete"}

(***************************************************************************)
(* DataValidator (src/src/validation.py).  The checks only read the two    *)
(* catalogs: a table of the model carries what their queries return for    *)
(* it.  A table is named by its position in tables_metadata, a column by   *)
(* its position in the table.                                              *)
(***************************************************************************)
MaxRows == 2        \* most rows of a validated table
NumValTables == 2   \* most tables a validation reads
MaxChecks == 2      \* most checks called on a validator before its report
sample_size == 5    \* the default sample_size of perform_spot_checks
NULL == 0           \* the NULL of a foreign-key column; key values are 1, 2
Missing == -1       \* stands for the count of a table that does not exist:
                    \* the COUNT(*) query raises

Abs(n) == IF n < 0 THEN -n ELSE n
Min(a, b) == IF a < b THEN a ELSE b

\* the dataclass ValidationIssue; message holds the fixed part of the text
ValidationIssue(severity, category, table, column, message, count) ==
    [severity |-> severity, category |-> category, table |-> table,
     column |-> column, message |-> message, count |-> count]

\* the issues one compared pair adds, with the signed difference as count
CountIssuesSigned(kind, key, s, t) ==
    IF s # t
    THEN << ValidationIssue("error", "data_quality", key, 0,
                            "Row count mismatch", s - t) >>
    ELSE IF kind = "row" THEN <<>>
    ELSE << ValidationIssue("info", "data_quality", key, 0,
                            "Row count matched", 0) >>

\* the issues one compared pair adds: compare_row_counts 542-549,
\* compare_custom_counts 701-717, compare_internal_counts 775-790
CountIssues(kind, key, s, t) ==
    IF s # t
    THEN << ValidationIssue("error", "data_quality", key, 0,
                            "Row count mismatch", Abs(s - t)) >>
    ELSE IF kind = "row" THEN <<>>
    ELSE << ValidationIssue("info", "data_quality", key, 0,
                            "Row count matched", 0) >>

\* one iteration of the loop of a row-count comparison: the issues it
\* appends, the records it appends to row_count_results and its entry of
\* the returned map.  A failed query is caught: compare_row_counts and
\* compare_custom_counts log it, compare_internal_counts records it.
PairOutcome(kind, key, s, t) ==
    IF s = Missing \/ t = Missing
    THEN IF kind = "internal"
         THEN [issues |-> << ValidationIssue("error", "validation_error", key,
                                             0, "Comparison failed", 1) >>,
               rows |-> << [table |-> key, source |-> Missing,
                            target |-> Missing, diff |-> 0, match |-> FALSE] >>,
               counts |-> {}]
         ELSE [issues |-> <<>>, rows |-> <<>>, counts |-> {}]
    ELSE [issues |-> CountIssues(kind, key, s, t),
          rows |-> << [table |-> key, source |-> s, target |-> t,
                       diff |-> s - t, match |-> (s = t)] >>,
          counts |-> { <<key, <<s, t>>>> }]

\* the loop of a row-count comparison over the tables from position i on
RECURSIVE ComparePairs(_, _, _)
ComparePairs(kind, tables, i) ==
    IF i > Len(tables) THEN [issues |-> <<>>, rows |-> <<>>, counts |-> {}]
    ELSE LET first == PairOutcome(kind, i, tables[i].source_count,
                                  tables[i].target_count)
             rest == ComparePairs(kind, tables, i + 1)
         IN  [issues |-> first.issues \o rest.issues,
              rows |-> first.rows \o rest.rows,
              counts |-> first.counts \cup rest.counts]

\* the warning of a comparison that lacks a connection
SkippedComparison ==
    [issues |-> << ValidationIssue("warning", "configuration", 0, 0,
                                   "Skipped", 0) >>,
     rows |-> <<>>, counts |-> {}]

\* the FOREIGN KEY definition get_mssql_metadata stores: the child and the
\* referenced column of every catalog row, in row order
MetadataForeignKey(fk) ==
    [child_columns |-> [j \in 1..fk.columns |-> j],
     parent_columns |-> [j \in 1..fk.columns |-> j]]

\* the rows the foreign-key query of fetch_target_metadata returns: it
\* joins key_column_usage to constraint_column_usage on the constraint
\* name and schema alone, so a constraint yields one row for every pair
\* of one of its child columns and one of its referenced columns
CatalogForeignKeyRows(fk) ==
    [n \in 1..(fk.columns * fk.columns) |->
        [column_name |-> ((n - 1) \div fk.columns) + 1,
         foreign_column_name |-> ((n - 1) % fk.columns) + 1]]

\* the FOREIGN KEY definition fetch_target_metadata builds from these rows
CatalogForeignKey(fk) ==
    LET rows == CatalogForeignKeyRows(fk)
    IN  [child_columns |-> [n \in DOMAIN rows |-> rows[n].column_name],
         parent_columns |-> [n \in DOMAIN rows |-> rows[n].foreign_column_name]]

\* what the anti-join of _check_target_orphaned_fks counts: the child rows
\* whose child_columns are all non-null and for which no parent row
\* satisfies every condition of zip(child_cols, parent_cols)
OrphanCount(fk_def, fk) ==
    LET pairs == 1..Min(Len(fk_def.child_columns), Len(fk_def.parent_columns))
        NotNull(c) == \A j \in DOMAIN fk_def.child_columns :
                          c[fk_def.child_columns[j]] # NULL
        Joins(p, c) == \A j \in pairs :
                           p[fk_def.parent_columns[j]] = c[fk_def.child_columns[j]]
    IN  Cardinality({ i \in DOMAIN fk.child_rows :
                        /\ NotNull(fk.child_rows[i])
                        /\ ~ \E p \in fk.parent_rows : Joins(p, fk.child_rows[i]) })

\* _check_target_orphaned_fks from foreign key k on; a query that raises
\* is logged at debug level and adds nothing
RECURSIVE OrphanIssues(_, _, _, _)
OrphanIssues(table, fks, from_catalog, k) ==
    IF k > Len(fks) THEN <<>>
    ELSE LET fk_def == IF from_catalog THEN CatalogForeignKey(fks[k])
                       ELSE MetadataForeignKey(fks[k])
             orphan_count == OrphanCount(fk_def, fks[k])
         IN  (IF fks[k].parent_exists /\ orphan_count > 0
              THEN << ValidationIssue("error", "integrity", table, k,
                                      "Orphaned foreign key references found",
                                      orphan_count) >>
              ELSE <<>>)
             \o OrphanIssues(table, fks, from_catalog, k + 1)

\* _check_target_null_values, for the NOT NULL column of the table
NullIssues(table, data) ==
    IF data.null_count > 0
    THEN << ValidationIssue("error", "data_quality", table, 1,
                            "NULL values found in NOT NULL column (Target)",
                            data.null_count) >>
    ELSE <<>>

\* _check_target_duplicate_keys, for the primary key of the table
DuplicateIssues(table, data) ==
    IF data.duplicate_keys > 0
    THEN << ValidationIssue("error", "integrity", table, 1,
                            "Duplicate primary key values found (Target)",
                            data.duplicate_keys) >>
    ELSE <<>>

\* the three checks validate_target_data and validate_schema_integrity run
\* on a table of the target
TableChecks(table, data, from_catalog) ==
    NullIssues(table, data) \o DuplicateIssues(table, data)
        \o OrphanIssues(table, data.fks, from_catalog, 1)

\* the loop of validate_target_data from table i on: a table that is not
\* on the target gets the issue of _check_table_exists and is skipped
RECURSIVE TargetDataIssues(_, _)
TargetDataIssues(tables, i) ==
    IF i > Len(tables) THEN <<>>
    ELSE (IF tables[i].target_count = Missing
          THEN << ValidationIssue("error", "schema", i, 0,
                                  "Table not found in target database", 0) >>
          ELSE TableChecks(i, tables[i], FALSE))
         \o TargetDataIssues(tables, i + 1)

\* the loop of validate_schema_integrity from table i on, over the tables
\* fetch_target_metadata finds in the target catalog
RECURSIVE SchemaIntegrityIssues(_, _)
SchemaIntegrityIssues(tables, i) ==
    IF i > Len(tables) THEN <<>>
    ELSE (IF tables[i].target_count = Missing THEN <<>>
          ELSE TableChecks(i, tables[i], TRUE))
         \o SchemaIntegrityIssues(tables, i + 1)

\* n copies of an issue
RECURSIVE Repeat(_, _)
Repeat(issue, n) == IF n <= 0 THEN <<>> ELSE <<issue>> \o Repeat(issue, n - 1)

\* data['original_columns'][key]
RECURSIVE DictValue(_, _, _)
DictValue(items, key, n) ==
    IF items[n][1] = key THEN items[n][2] ELSE DictValue(items, key, n + 1)

\* perform_spot_checks 391-399: the original name of a translated primary
\* key column.  The loop unpacks the items (translated, original) of
\* original_columns as (orig, trans), so it looks for an item whose original
\* name is the translated column and returns what the dictionary holds
\* under that name; no item gives no name.
RECURSIVE PkColOrig(_, _, _)
PkColOrig(items, trans_col, n) ==
    IF n > Len(items) THEN <<>>
    ELSE IF items[n][2] = trans_col THEN << DictValue(items, items[n][2], 1) >>
    ELSE PkColOrig(items, trans_col, n + 1)

\* pk_cols_orig of perform_spot_checks for the columns of the key from k on
RECURSIVE PkColsOrig(_, _, _)
PkColsOrig(items, pk_cols_trans, k) ==
    IF k > Len(pk_cols_trans) THEN <<>>
    ELSE PkColOrig(items, pk_cols_trans[k], 1)
             \o PkColsOrig(items, pk_cols_trans, k + 1)

\* whether perform_spot_checks samples the table: it has a primary key
\* (385-387) and every column of the key got an original name (401-402)
SpotChecked(data) ==
    /\ data.primary_key # <<>>
    /\ Len(PkColsOrig(data.original_columns, data.primary_key[1], 1))
           = Len(data.primary_key[1])

\* SELECT TOP sample_size ... ORDER BY NEWID() (415) draws a random sample
\* of the source rows, all of them when the table has at most sample_size.
\* The target holds copies of source rows, so the sampled rows without a
\* target row are the rows drawn among those that were not copied: these
\* are the numbers of such rows a sample can hold.  A table that is not
\* sampled, or whose queries raise, has none.
MissingInSample(data) ==
    LET s == data.source_count
        t == data.target_count
        sampled == Min(sample_size, s)
    IN  IF ~SpotChecked(data) \/ s = Missing \/ t = Missing \/ s <= t
        THEN {0}
        ELSE (IF sampled > t THEN sampled - t ELSE 0)..Min(sampled, s - t)

\* the loop of perform_spot_checks from table i on: one issue for every
\* sampled row without a target row, drawn[i] of them in table i
RECURSIVE SpotCheckIssues(_, _, _)
SpotCheckIssues(tables, i, drawn) ==
    IF i > Len(tables) THEN <<>>
    ELSE Repeat(ValidationIssue("error", "data_integrity", i, 0,
                                "Spot check failed", 1),
                drawn[i])
         \o SpotCheckIssues(tables, i + 1, drawn)

\* _check_null_values (90-110) on the source, for the NOT NULL column of
\* the table; a query that raises is logged at debug level
SourceNullIssues(table, data) ==
    IF data.source_count # Missing /\ data.source_null_count > 0
    THEN << ValidationIssue("error", "data_quality", table, 1,
                            "NULL values found in NOT NULL column",
                            data.source_null_count) >>
    ELSE <<>>

\* _check_duplicate_keys (112-139) on the source: the query names the
\* columns of the key as the Schema Model holds them, translated, so it
\* raises on a table whose key column was renamed
SourceDuplicateIssues(table, data) ==
    IF /\ data.source_count # Missing
       /\ data.primary_key # <<>>
       /\ \A k \in DOMAIN data.primary_key[1] :
              \E n \in DOMAIN data.original_columns :
                  data.original_columns[n][2] = data.primary_key[1][k]
       /\ data.source_duplicate_keys > 0
    THEN << ValidationIssue("error", "integrity", table, 1,
                            "Duplicate primary key values found",
                            data.source_duplicate_keys) >>
    ELSE <<>>

\* the loop of validate_source_data (67-83) from table i on;
\* _check_orphaned_fks (141-178) builds its query and does not run it
RECURSIVE SourceDataIssues(_, _)
SourceDataIssues(tables, i) ==
    IF i > Len(tables) THEN <<>>
    ELSE SourceNullIssues(i, tables[i]) \o SourceDuplicateIssues(i, tables[i])
         \o SourceDataIssues(tables, i + 1)

\* stands for the table name 'MULTIPLE' of a redundancy issue
MULTIPLE == -2

\* the fields check_column_redundancy expects in several tables (981-985)
audit_fields ==
    { <<"C","r","e","a","t","e","d","A","t">>,
      <<"U","p","d","a","t","e","d","A","t">>,
      <<"T","i","m","e","s","t","a","m","p">>,
      <<"L","a","s","t","M","o","d","i","f","i","e","d">>,
      <<"T","e","n","a","n","t">>,
      <<"T","e","n","a","n","t","I","D">>,
      <<"G","l","o","b","a","l","U","I","D">>,
      <<"R","o","w","V","e","r","s","i","o","n">>,
      <<"I","s","A","c","t","i","v","e">>,
      <<"I","s","D","r","a","f","t">>,
      <<"I","s","D","e","l","e","t","e","d">>,
      <<"I","s","V","a","l","i","d","a","t","e","d">>,
      <<"V","a","l","i","d","a","t","i","o","n","D","a","t","e">> }

\* col_name.endswith('ID') or col_name == 'ID' (977)
EndsWithID(col_name) ==
    EndsWith(col_name, <<"I","D">>) \/ col_name = <<"I","D">>

\* the issues of check_column_redundancy from column c of table i on.
\* column_map (961-969) holds, for a column name, the tables of the target
\* catalog that have a column of this name; its keys are in the order of
\* their first column, so the issue of a name is added at the first table
\* that has it (987-1005)
RECURSIVE RedundancyIssues(_, _, _)
RedundancyIssues(tables, i, c) ==
    IF i > Len(tables) THEN <<>>
    ELSE IF c > Len(tables[i].columns) THEN RedundancyIssues(tables, i + 1, 1)
    ELSE LET col_name == tables[i].columns[c]
             with == { j \in DOMAIN tables :
                         /\ tables[j].target_count # Missing
                         /\ \E k \in DOMAIN tables[j].columns :
                                tables[j].columns[k] = col_name }
         IN  (IF /\ tables[i].target_count # Missing
                 /\ \A j \in with : j >= i
                 /\ Cardinality(with) > 1
                 /\ ~EndsWithID(col_name)
                 /\ col_name \notin audit_fields
              THEN << ValidationIssue("warning", "schema_design", MULTIPLE, c,
                                      "Potential column redundancy",
                                      Cardinality(with)) >>
              ELSE <<>>)
             \o RedundancyIssues(tables, i, c + 1)

(***************************************************************************)
(* The catalogs a validation reads.                                        *)
(***************************************************************************)
Counts == 0..MaxRows
CountOutcomes == Counts \cup {Missing}
FkValues == {NULL, 1, 2}

\* a table whose primary key column ID is not renamed by translation, with
\* a NOT NULL column N and an audit column, their names spelled out for
\* check_column_redundancy; the constraints of the source keep its NOT NULL
\* column and its key clean
TableCase(s, t, nulls, dups, fks) ==
    [source_count |-> s, target_count |-> t, null_count |-> nulls,
     duplicate_keys |-> dups, fks |-> fks,
     original_columns |-> << <<"ID", "ID">> >>, primary_key |-> << <<"ID">> >>,
     columns |-> << <<"N">>, <<"I","D">>, <<"C","r","e","a","t","e","d","A","t">> >>,
     source_null_count |-> 0, source_duplicate_keys |-> 0]

\* the table with its primary key column SchuelerID translated to StudentID:
\* original_columns maps the translated name to the original one
WithRenamedKey(data) ==
    [data EXCEPT !.original_columns = << <<"StudentID", "SchuelerID">> >>,
                 !.primary_key = << <<"StudentID">> >>,
                 !.columns[2] = <<"S","t","u","d","e","n","t","I","D">>]

\* the table without a primary key
WithoutKey(data) == [data EXCEPT !.primary_key = <<>>]

\* the table with what the queries of the source checks return for it
WithSourceFindings(data, nulls, dups) ==
    [data EXCEPT !.source_null_count = nulls, !.source_duplicate_keys = dups]

\* the table with another name for its NOT NULL column
WithOtherColumn(data) == [data EXCEPT !.columns[1] = <<"M">>]

\* foreign keys of one column: every content of the child column, the
\* parent holding the key 1; and one whose parent table is not on the target
SingleColumnKeys ==
    { [columns |-> 1, child_rows |-> rows, parent_rows |-> {<<1>>},
       parent_exists |-> TRUE] : rows \in [1..MaxRows -> [1..1 -> FkValues]] }
    \cup { [columns |-> 1, child_rows |-> [i \in 1..MaxRows |-> <<2>>],
            parent_rows |-> {}, parent_exists |-> FALSE] }

\* foreign keys of two columns: one child row, the parent holding (1, 2)
CompositeKeys ==
    { [columns |-> 2, child_rows |-> <<row>>, parent_rows |-> {<<1, 2>>},
       parent_exists |-> TRUE] : row \in [1..2 -> FkValues] }

\* the single-column keys whose last child row has a parent
CoreKeys ==
    { fk \in SingleColumnKeys : fk.parent_exists /\ fk.child_rows[MaxRows] = <<1>> }

TableCases ==
    { TableCase(s, t, 0, 0, <<>>) : s \in CountOutcomes, t \in CountOutcomes }
    \cup { TableCase(1, 1, n, d, <<>>) : n \in 0..1, d \in 0..1 }
    \cup { TableCase(Len(fk.child_rows), Len(fk.child_rows), 0, 0, <<fk>>) :
             fk \in SingleColumnKeys \cup CompositeKeys }
    \cup { TableCase(MaxRows, MaxRows, 0, 0, <<fk1, fk2>>) :
             fk1 \in CoreKeys, fk2 \in CoreKeys }
    \cup { WithRenamedKey(TableCase(MaxRows, t, 0, 0, <<>>)) : t \in Counts }
    \cup { WithoutKey(TableCase(MaxRows, t, 0, 0, <<>>)) : t \in Counts }
    \cup { WithSourceFindings(TableCase(MaxRows, MaxRows, 0, 0, <<>>), n, d) :
             n \in 0..1, d \in 0..1 }
    \cup { WithSourceFindings(WithRenamedKey(TableCase(MaxRows, MaxRows, 0, 0, <<>>)),
                              0, 1),
           WithOtherColumn(TableCase(MaxRows, MaxRows, 0, 0, <<>>)) }
    \cup { TableCase(sample_size + 1, t, 0, 0, <<>>) :
             t \in {sample_size - 1, sample_size + 1} }

\* the tables that follow the first one: one whose counts agree and one
\* that lost a row
CoreTables ==
    { TableCase(s, MaxRows, 0, 0, <<>>) : s \in {MaxRows - 1, MaxRows} }

ValidatedSchemas ==
    { <<first>> \o rest : first \in TableCases,
                          rest \in SeqsUpTo(CoreTables, NumValTables - 1) }

(***************************************************************************)
(* Specification of a DataValidator: it is constructed with its            *)
(* connections, checks are called on it in any order, and generate_report  *)
(* reads its issues.                                                       *)
(***************************************************************************)
ValInit ==
    /\ TrIdle
    /\ TsIdle
    /\ ColIdle
    /\ RunIdle
    /\ TsqlIdle
    /\ ViewIdle
    /\ ApiIdle
    /\ SeqIdle
    /\ TrkIdle
    /\ DefIdle
    /\ ConIdle
    /\ MetaIdle
    /\ TRANSLATION_DICT = <<>>
    /\ has_mssql_conn \in BOOLEAN
    /\ has_pg_conn \in BOOLEAN
    /\ validated_tables \in ValidatedSchemas
    /\ issues = <<>>
    /\ row_count_results = <<>>
    /\ returned_counts = {}
    /\ recorded_issues = <<>>
    /\ added_issues = <<>>
    /\ last_check = "none"
    /\ checks_done = 0
    /\ report_issues = <<>>
    /\ val_pc = "checking"

\* what a check leaves behind: the issues of its outcome appended to the
\* issues it started from
CheckRan(name, start_issues, outcome) ==
    /\ issues' = start_issues \o outcome.issues
    /\ recorded_issues' = recorded_issues \o outcome.issues
    /\ added_issues' = outcome.issues
    /\ row_count_results' = row_count_results \o outcome.rows
    /\ returned_counts' = outcome.counts
    /\ last_check' = name
    /\ checks_done' = checks_done + 1
    /\ UNCHANGED <<has_mssql_conn, has_pg_conn, validated_tables, report_issues,
                   val_pc, notVal>>

NoOutcome == [issues |-> <<>>, rows |-> <<>>, counts |-> {}]

\* compare_row_counts
CompareRowCounts ==
    /\ val_pc = "checking"
    /\ checks_done < MaxChecks
    /\ CheckRan("compare_row_counts", issues,
                IF ~has_mssql_conn \/ ~has_pg_conn THEN NoOutcome
                ELSE ComparePairs("row", validated_tables, 1))

\* compare_custom_counts, with one mapping for every table
CompareCustomCounts ==
    /\ val_pc = "checking"
    /\ checks_done < MaxChecks
    /\ CheckRan("compare_custom_counts", issues,
                IF ~has_mssql_conn \/ ~has_pg_conn THEN SkippedComparison
                ELSE ComparePairs("custom", validated_tables, 1))

\* compare_internal_counts, with one mapping for every table
CompareInternalCounts ==
    /\ val_pc = "checking"
    /\ checks_done < MaxChecks
    /\ CheckRan("compare_internal_counts", issues,
                IF ~has_pg_conn THEN SkippedComparison
                ELSE ComparePairs("internal", validated_tables, 1))

\* validate_source_data: it starts from an empty issue list (60)
ValidateSourceData ==
    /\ val_pc = "checking"
    /\ checks_done < MaxChecks
    /\ CheckRan("validate_source_data", <<>>,
                [NoOutcome EXCEPT !.issues =
                    IF ~has_mssql_conn THEN <<>>
                    ELSE SourceDataIssues(validated_tables, 1)])

\* validate_target_data: it starts from an empty issue list
ValidateTargetData ==
    /\ val_pc = "checking"
    /\ checks_done < MaxChecks
    /\ CheckRan("validate_target_data", <<>>,
                [NoOutcome EXCEPT !.issues =
                    IF ~has_pg_conn THEN <<>>
                    ELSE TargetDataIssues(validated_tables, 1)])

\* validate_schema_integrity
ValidateSchemaIntegrity ==
    /\ val_pc = "checking"
    /\ checks_done < MaxChecks
    /\ CheckRan("validate_schema_integrity", issues,
                [NoOutcome EXCEPT !.issues =
                    IF ~has_pg_conn THEN <<>>
                    ELSE SchemaIntegrityIssues(validated_tables, 1)])

\* check_column_redundancy, on the tables fetch_target_metadata finds
CheckColumnRedundancy ==
    /\ val_pc = "checking"
    /\ checks_done < MaxChecks
    /\ CheckRan("check_column_redundancy", issues,
                [NoOutcome EXCEPT !.issues =
                    IF ~has_pg_conn THEN <<>>
                    ELSE RedundancyIssues(validated_tables, 1, 1)])

\* perform_spot_checks, with the sample its queries draw from every table
PerformSpotChecks ==
    /\ val_pc = "checking"
    /\ checks_done < MaxChecks
    /\ \E drawn \in [DOMAIN validated_tables -> 0..sample_size] :
           /\ \A i \in DOMAIN validated_tables :
                  drawn[i] \in MissingInSample(validated_tables[i])
           /\ CheckRan("perform_spot_checks", issues,
                       [NoOutcome EXCEPT !.issues =
                           IF ~has_mssql_conn \/ ~has_pg_conn THEN <<>>
                           ELSE SpotCheckIssues(validated_tables, 1, drawn)])

\* generate_report
GenerateReport ==
    /\ val_pc = "checking"
    /\ report_issues' = issues
    /\ val_pc' = "reported"
    /\ UNCHANGED <<has_mssql_conn, has_pg_conn, validated_tables, issues,
                   row_count_results, returned_counts, recorded_issues,
                   added_issues, last_check, checks_done, notVal>>

ValNext ==
    \/ CompareRowCounts
    \/ CompareCustomCounts
    \/ CompareInternalCounts
    \/ ValidateSourceData
    \/ ValidateTargetData
    \/ ValidateSchemaIntegrity
    \/ CheckColumnRedundancy
    \/ PerformSpotChecks
    \/ GenerateReport

SpecValidator == ValInit /\ [][ValNext]_vars

(***************************************************************************)
(* Claims about the DataValidator, checked under SpecValidator.            *)
(***************************************************************************)
ComparisonChecks ==
    {"compare_row_counts", "compare_custom_counts", "compare_internal_counts"}

\* the last check was a row-count comparison that had its connections
PairsCompared ==
    /\ last_check \in ComparisonChecks
    /\ has_pg_conn
    /\ last_check # "compare_internal_counts" => has_mssql_conn

\* the issues of the given severities the last check added for a table
AddedFor(table, severities) ==
    { k \in DOMAIN added_issues :
        /\ added_issues[k].table = table
        /\ added_issues[k].severity \in severities }

\* C15: for each compared pair of tables with source count s and target
\* count t, a row-count comparison adds exactly one error issue with count
\* |s - t| when s # t, adds no error or warning issue (and at most one info
\* issue) when s = t, and returns a map that holds (s, t) for the pair.
C15_RowCountIssues ==
    PairsCompared =>
        \A i \in DOMAIN validated_tables :
            LET s == validated_tables[i].source_count
                t == validated_tables[i].target_count
            IN  (s # Missing /\ t # Missing) =>
                    /\ <<i, <<s, t>>>> \in returned_counts
                    /\ s # t =>
                           \E k \in DOMAIN added_issues :
                               /\ AddedFor(i, {"error"}) = {k}
                               /\ added_issues[k].count =
                                      (IF s > t THEN s - t ELSE t - s)
                    /\ s = t =>
                           /\ AddedFor(i, {"error", "warning"}) = {}
                           /\ Cardinality(AddedFor(i, {"info"})) <= 1

\* a comparison of two pairs, one with fewer source rows than target rows
\* and one with equal counts, added an error issue and an info issue
C15_Witness ==
    /\ PairsCompared
    /\ last_check = "compare_custom_counts"
    /\ Len(validated_tables) = 2
    /\ validated_tables[1].source_count = 1
    /\ validated_tables[1].target_count = 2
    /\ validated_tables[2].source_count = 2
    /\ validated_tables[2].target_count = 2
    /\ Len(added_issues) = 2
    /\ added_issues[1].severity = "error"
    /\ added_issues[2].severity = "info"

\* C16: findings accumulate over the checks of one validator: every issue
\* an earlier check added is still in the issue list generate_report reads.
C16_FindingsAccumulate ==
    val_pc = "reported" =>
        \A k \in DOMAIN recorded_issues :
            \E j \in DOMAIN report_issues : report_issues[j] = recorded_issues[k]

\* the child rows of a foreign key that have a non-null value in every
\* column of the key and no parent row with these values
Orphans(fk) ==
    { i \in DOMAIN fk.child_rows :
        /\ \A j \in 1..fk.columns : fk.child_rows[i][j] # NULL
        /\ fk.child_rows[i] \notin fk.parent_rows }

\* the orphaned-FK issues the last check added for foreign key k of a table
OrphanIssuesFor(table, k) ==
    { n \in DOMAIN added_issues :
        /\ added_issues[n].table = table
        /\ added_issues[n].column = k
        /\ added_issues[n].message = "Orphaned foreign key references found" }

\* C20: on the target, for every foreign key of a validated table, the
\* validator adds exactly one orphaned-FK issue, whose count is the number
\* of orphaned child rows, when that number is positive, and none when it
\* is zero.
C20_OneIssuePerOrphanedKey ==
    (last_check \in {"validate_target_data", "validate_schema_integrity"}
        /\ has_pg_conn) =>
        \A i \in DOMAIN validated_tables :
            validated_tables[i].target_count # Missing =>
                \A k \in DOMAIN validated_tables[i].fks :
                    LET orphans == Cardinality(Orphans(validated_tables[i].fks[k]))
                    IN  IF orphans > 0
                        THEN \E n \in DOMAIN added_issues :
                                 /\ OrphanIssuesFor(i, k) = {n}
                                 /\ added_issues[n].count = orphans
                        ELSE OrphanIssuesFor(i, k) = {}

\* the spot-check issues the last check added for a table
SpotIssuesFor(table) ==
    { n \in DOMAIN added_issues :
        /\ added_issues[n].table = table
        /\ added_issues[n].message = "Spot check failed" }

\* C21: for every validated table that has a primary key, also one whose
\* key columns were renamed by translation, perform_spot_checks adds one
\* error issue for each sampled source row without a row of the same key
\* on the target.
C21_SpotCheckEveryKeyedTable ==
    (last_check = "perform_spot_checks" /\ has_mssql_conn /\ has_pg_conn) =>
        \A i \in DOMAIN validated_tables :
            LET s == validated_tables[i].source_count
                t == validated_tables[i].target_count
            IN  (validated_tables[i].primary_key # <<>>
                    /\ s # Missing /\ t # Missing) =>
                    /\ Cardinality(SpotIssuesFor(i)) >=
                           (IF Min(sample_size, s) > t
                            THEN Min(sample_size, s) - t ELSE 0)
                    /\ Cardinality(SpotIssuesFor(i)) <=
                           (IF s > t THEN Min(sample_size, s - t) ELSE 0)
                    /\ \A n \in SpotIssuesFor(i) :
                           added_issues[n].severity = "error"

(***************************************************************************)
(* The control surface of src/src/api.py.  Flask-SocketIO runs in          *)
(* threading mode: every request is handled on a thread of its own, and a  *)
(* migration runs on a worker thread.  All of them read and write          *)
(* migration_state['status'] without a lock, so a handler is modelled by   *)
(* one action for every access of the status.                              *)
(***************************************************************************)
MaxRequests == 3    \* most requests the server receives

RequestKinds == {"migrate", "normalize", "stop"}

\* the worker threads that were started and have not finished
ExecutingWorkers ==
    { w \in DOMAIN migration_threads : migration_threads[w].pc # "finished" }

ApiInit ==
    /\ TrIdle
    /\ TsIdle
    /\ ColIdle
    /\ RunIdle
    /\ TsqlIdle
    /\ ViewIdle
    /\ ValIdle
    /\ SeqIdle
    /\ TrkIdle
    /\ DefIdle
    /\ ConIdle
    /\ MetaIdle
    /\ TRANSLATION_DICT = <<>>
    /\ migration_state = "idle"
    /\ requests = <<>>
    /\ migration_threads = <<>>

\* a client sends POST /api/migrate, /api/normalize or /api/stop
ReceiveRequest ==
    /\ Len(requests) < MaxRequests
    /\ \E kind \in RequestKinds :
           requests' = Append(requests, [kind |-> kind, pc |-> "received"])
    /\ UNCHANGED <<migration_state, migration_threads, notApi>>

\* start_migration 543-553, run_normalization 600-630: the status is
\* checked, a start being refused only while it is 'running', and the
\* request body is validated
CheckStart ==
    /\ \E r \in DOMAIN requests :
           /\ requests[r].kind \in {"migrate", "normalize"}
           /\ requests[r].pc = "received"
           /\ \E valid \in BOOLEAN :
                  requests' = [requests EXCEPT ![r].pc =
                                  IF migration_state = "running" \/ ~valid
                                  THEN "refused" ELSE "accepted"]
    /\ UNCHANGED <<migration_state, migration_threads, notApi>>

\* start_migration 555-558, run_normalization 633-636: the state is reset,
\* the status written being 'running'
ResetState ==
    /\ \E r \in DOMAIN requests :
           /\ requests[r].pc = "accepted"
           /\ requests' = [requests EXCEPT ![r].pc = "starting"]
    /\ migration_state' = "running"
    /\ UNCHANGED <<migration_threads, notApi>>

\* start_migration 561-566, run_normalization 639-644: the worker thread is
\* created and started
StartWorker ==
    /\ \E r \in DOMAIN requests :
           /\ requests[r].pc = "starting"
           /\ requests' = [requests EXCEPT ![r].pc = "started"]
           /\ migration_threads' =
                  Append(migration_threads, [target |-> requests[r].kind,
                                             pc |-> "started",
                                             status_read |-> "none"])
    /\ UNCHANGED <<migration_state, notApi>>

\* start_migration 568, run_normalization 646: the request is answered
AnswerStart ==
    /\ \E r \in DOMAIN requests :
           /\ requests[r].pc = "started"
           /\ requests' = [requests EXCEPT ![r].pc = "answered"]
    /\ UNCHANGED <<migration_state, migration_threads, notApi>>

\* stop_migration 575: the status is read; no worker is told to stop
CheckStop ==
    /\ \E r \in DOMAIN requests :
           /\ requests[r].kind = "stop"
           /\ requests[r].pc = "received"
           /\ requests' = [requests EXCEPT ![r].pc =
                              IF migration_state = "running"
                              THEN "stopping" ELSE "refused"]
    /\ UNCHANGED <<migration_state, migration_threads, notApi>>

\* stop_migration 576-578: the status is written and the request answered
StopMigration ==
    /\ \E r \in DOMAIN requests :
           /\ requests[r].pc = "stopping"
           /\ requests' = [requests EXCEPT ![r].pc = "answered"]
    /\ migration_state' = "stopped"
    /\ UNCHANGED <<migration_threads, notApi>>

\* run_migration 195, run_normalization_scripts 652: the worker enters its
\* try block
WorkerBegins ==
    /\ \E w \in DOMAIN migration_threads :
           /\ migration_threads[w].pc = "started"
           /\ migration_threads' = [migration_threads EXCEPT ![w].pc = "running"]
    /\ migration_state' = "running"
    /\ UNCHANGED <<requests, notApi>>

\* the worker reaches emit_complete (431) or its handler calls emit_error (435)
WorkerEnds ==
    /\ \E w \in DOMAIN migration_threads :
           /\ migration_threads[w].pc = "running"
           /\ migration_threads' = [migration_threads EXCEPT ![w].pc = "ending"]
    /\ \E outcome \in {"completed", "error"} : migration_state' = outcome
    /\ UNCHANGED <<requests, notApi>>

\* the finally clause of the worker (437, 829) reads the status
WorkerReadsStatus ==
    /\ \E w \in DOMAIN migration_threads :
           /\ migration_threads[w].pc = "ending"
           /\ migration_threads' =
                  [migration_threads EXCEPT ![w].pc = "finishing",
                                            ![w].status_read = migration_state]
    /\ UNCHANGED <<migration_state, requests, notApi>>

\* the finally clause writes the status it computed from the one it read,
\* after which the thread is over
WorkerFinishes ==
    /\ \E w \in DOMAIN migration_threads :
           /\ migration_threads[w].pc = "finishing"
           /\ migration_state' = IF migration_threads[w].status_read # "error"
                                 THEN "idle" ELSE "error"
           /\ migration_threads' =
                  [migration_threads EXCEPT ![w].pc = "finished",
                                            ![w].status_read = "none"]
    /\ UNCHANGED <<requests, notApi>>

\* MigrationLogger.error (177-179): the message is logged and handed to
\* emit_error, which sets the status (99).  The method is public and asks
\* for no request and no worker, so it can be called in every state
MigrationLoggerError ==
    /\ migration_state' = "error"
    /\ UNCHANGED <<requests, migration_threads, notApi>>

ApiNext ==
    \/ ReceiveRequest
    \/ CheckStart
    \/ ResetState
    \/ StartWorker
    \/ AnswerStart
    \/ CheckStop
    \/ StopMigration
    \/ WorkerBegins
    \/ WorkerEnds
    \/ WorkerReadsStatus
    \/ WorkerFinishes
    \/ MigrationLoggerError

SpecApi == ApiInit /\ [][ApiNext]_vars

(***************************************************************************)
(* Claim about the control surface, checked under SpecApi.                 *)
(***************************************************************************)
\* C17: across any interleaving of /api/migrate, /api/normalize and
\* /api/stop requests with the progress of the worker thread, at most one
\* migration worker is executing at a time: a start request is refused as
\* long as a previously started worker has not finished.
C17_AtMostOneWorker ==
    Cardinality(ExecutingWorkers) <= 1

(***************************************************************************)
(* The sequence pass of migrate_constraints_and_indexes (main.py 686-707)  *)
(* for one identity column.  The column was created as SERIAL or BIGSERIAL *)
(* (main.py 402-403), which gives it a sequence that starts at 1, has the  *)
(* minimum 1 and was not called: the data phase inserts the source values  *)
(* of the column and never asks the sequence for one.                      *)
(***************************************************************************)
MaxIdentity == 3        \* largest value of the identity column
SequenceMin == 1        \* MINVALUE of the sequence of a SERIAL or BIGSERIAL column

\* an identity column may hold values below 1: the source seed can be
\* zero or negative
IdentityValues == (1 - MaxIdentity)..MaxIdentity

\* MAX(column), for a column that holds a value
MaxOf(values) == CHOOSE m \in values : \A v \in values : v <= m

\* the third argument of setval, always true
SetvalIsCalledAlways(values) == TRUE

\* the third argument of setval: MAX(column) IS NOT NULL
SetvalIsCalled(values) == values # {}

\* the second argument of setval: COALESCE(MAX(column), 1)
SetvalValue(values) == IF values = {} THEN 1 ELSE MaxOf(values)

\* setval(sequence, value, is_called) on the target: a value outside the
\* bounds of the sequence raises and leaves the sequence as it was.  The
\* value is 1 or a value of the column, and the maximum of the sequence is
\* the largest value of the type of its column (integer for SERIAL, bigint
\* for BIGSERIAL), so the value is never above it.
Setval(seq, value, is_called) ==
    IF value < SequenceMin
    THEN [raised |-> TRUE, sequence |-> seq]
    ELSE [raised |-> FALSE,
          sequence |-> [last_value |-> value, is_called |-> is_called]]

\* nextval(sequence) on the target
Nextval(seq) == IF seq.is_called THEN seq.last_value + 1 ELSE seq.last_value

SeqInit ==
    /\ TrIdle
    /\ TsIdle
    /\ ColIdle
    /\ RunIdle
    /\ TsqlIdle
    /\ ViewIdle
    /\ ValIdle
    /\ ApiIdle
    /\ TrkIdle
    /\ DefIdle
    /\ ConIdle
    /\ MetaIdle
    /\ TRANSLATION_DICT = <<>>
    /\ identity_values \in SUBSET IdentityValues
    /\ sequence = [last_value |-> 1, is_called |-> FALSE]
    /\ setval_failed = FALSE
    /\ generated_value = 0
    /\ seq_pc = "loaded"

\* the setval statement of the sequence pass; psycopg2.Error is caught,
\* logged as a warning and followed by ROLLBACK
UpdateSequence ==
    /\ seq_pc = "loaded"
    /\ LET result == Setval(sequence, SetvalValue(identity_values),
                            SetvalIsCalled(identity_values))
       IN  /\ sequence' = result.sequence
           /\ setval_failed' = result.raised
    /\ seq_pc' = "updated"
    /\ UNCHANGED <<identity_values, generated_value, notSeq>>

\* after the migration a row is inserted without a value for the column
InsertGenerated ==
    /\ seq_pc = "updated"
    /\ generated_value' = Nextval(sequence)
    /\ sequence' = [last_value |-> Nextval(sequence), is_called |-> TRUE]
    /\ identity_values' = identity_values \cup {Nextval(sequence)}
    /\ seq_pc' = "inserted"
    /\ UNCHANGED <<setval_failed, notSeq>>

SeqNext ==
    \/ UpdateSequence
    \/ InsertGenerated

SpecSequence == SeqInit /\ [][SeqNext]_vars

(***************************************************************************)
(* Claim about the sequence pass, checked under SpecSequence.              *)
(***************************************************************************)
\* C18: after the sequence pass the sequence stands at max(largest
\* existing value, 1): the next generated value is 1 for an empty table and
\* is strictly greater than every existing value otherwise, for every
\* largest existing value including values below 1.
C18_NextValueAboveExisting ==
    seq_pc = "updated" =>
        /\ \A m \in identity_values :
               (\A v \in identity_values : v <= m) =>
                   sequence.last_value = (IF m > 1 THEN m ELSE 1)
        /\ identity_values = {} => sequence.last_value = 1 /\ Nextval(sequence) = 1
        /\ \A v \in identity_values : Nextval(sequence) > v

\* the column holds only values below 1 and the row inserted after the
\* pass got the value 1
C18_Witness ==
    /\ seq_pc = "inserted"
    /\ generated_value = 1
    /\ 0 \in identity_values
    /\ 1 - MaxIdentity \in identity_values
    /\ setval_failed

(***************************************************************************)
(* The migration tracker of src/src/migration_tracker.py: the table        *)
(* migration_history holds the recorded executions of the normalization    *)
(* scripts, with a UNIQUE constraint on script_name.  Of a row the model   *)
(* keeps the columns the operations below read.                            *)
(***************************************************************************)
MaxExecutions == 3    \* most calls of record_execution

ScriptNames == {"a", "b", "c"}

\* the lists of scripts get_pending_scripts is asked about
ScriptLists == SeqsUpTo(ScriptNames, Cardinality(ScriptNames))

\* ON CONFLICT (script_name) DO NOTHING, that is, the first record of a
\* script is kept
RECURSIVE UpsertKeepsFirst(_, _, _, _)
UpsertKeepsFirst(rows, script_name, success, n) ==
    IF n > Len(rows)
    THEN Append(rows, [script_name |-> script_name, success |-> success])
    ELSE IF rows[n].script_name = script_name THEN rows
    ELSE UpsertKeepsFirst(rows, script_name, success, n + 1)

\* the INSERT ... ON CONFLICT (script_name) DO UPDATE SET success =
\* EXCLUDED.success of record_execution: the row of the script takes the
\* new values, and a script without a row gets one
RECURSIVE Upsert(_, _, _, _)
Upsert(rows, script_name, success, n) ==
    IF n > Len(rows)
    THEN Append(rows, [script_name |-> script_name, success |-> success])
    ELSE IF rows[n].script_name = script_name
    THEN [rows EXCEPT ![n].success = success]
    ELSE Upsert(rows, script_name, success, n + 1)

\* is_script_executed: SELECT COUNT(*) ... WHERE script_name = %s AND
\* success = TRUE is positive
is_script_executed(rows, script_name) ==
    Cardinality({ n \in DOMAIN rows : /\ rows[n].script_name = script_name
                                      /\ rows[n].success = TRUE }) > 0

\* get_pending_scripts: the scripts of all_scripts, from position n on,
\* that are not among the script names of the rows with success = TRUE
RECURSIVE get_pending_scripts(_, _, _)
get_pending_scripts(rows, scripts, n) ==
    LET executed == { rows[k].script_name : k \in { j \in DOMAIN rows : rows[j].success = TRUE } }
    IN  IF n > Len(scripts) THEN <<>>
        ELSE (IF scripts[n] \notin executed THEN << scripts[n] >> ELSE <<>>)
                 \o get_pending_scripts(rows, scripts, n + 1)

\* a tracker is constructed on a target whose tracking table is empty
TrkInit ==
    /\ TrIdle
    /\ TsIdle
    /\ ColIdle
    /\ RunIdle
    /\ TsqlIdle
    /\ ViewIdle
    /\ ValIdle
    /\ ApiIdle
    /\ SeqIdle
    /\ DefIdle
    /\ ConIdle
    /\ MetaIdle
    /\ TRANSLATION_DICT = <<>>
    /\ migration_history = <<>>
    /\ executions = <<>>
    /\ record_raised = FALSE
    /\ all_scripts = <<>>
    /\ pending_scripts = <<>>
    /\ trk_pc = "ready"

\* record_execution returns: the statement was executed and committed
RecordExecution ==
    /\ trk_pc # "idle"
    /\ Len(executions) < MaxExecutions
    /\ \E script_name \in ScriptNames, success \in BOOLEAN :
          /\ migration_history' = Upsert(migration_history, script_name, success, 1)
          /\ executions' = Append(executions, [script_name |-> script_name,
                                               success |-> success])
    /\ record_raised' = FALSE
    /\ trk_pc' = "recorded"
    /\ all_scripts' = <<>>
    /\ pending_scripts' = <<>>
    /\ UNCHANGED notTrk

\* record_execution raises: the statement failed with a psycopg2.Error, the
\* transaction is rolled back and the error is raised again
RecordExecutionRaises ==
    /\ trk_pc # "idle"
    /\ ~record_raised
    /\ record_raised' = TRUE
    /\ trk_pc' = "recorded"
    /\ all_scripts' = <<>>
    /\ pending_scripts' = <<>>
    /\ UNCHANGED <<migration_history, executions>>
    /\ UNCHANGED notTrk

\* get_pending_scripts returns.  It only reads the table, so a call that
\* follows another one without a record in between sees what a first call
\* sees.
GetPendingScripts ==
    /\ trk_pc \in {"ready", "recorded"}
    /\ \E scripts \in ScriptLists :
          /\ all_scripts' = scripts
          /\ pending_scripts' = get_pending_scripts(migration_history, scripts, 1)
    /\ trk_pc' = "pending_returned"
    /\ UNCHANGED <<migration_history, executions, record_raised>>
    /\ UNCHANGED notTrk

TrkNext == RecordExecution \/ RecordExecutionRaises \/ GetPendingScripts

SpecTracker == TrkInit /\ [][TrkNext]_vars

\* whether the script was recorded and its most recent record is a success
MostRecentSucceeded(script_name) ==
    \E n \in DOMAIN executions :
        /\ executions[n].script_name = script_name
        /\ executions[n].success
        /\ \A k \in DOMAIN executions :
               executions[k].script_name = script_name => k <= n

\* the elements of a list, from position n on, that are not in a set
RECURSIVE Without(_, _, _)
Without(list, set, n) ==
    IF n > Len(list) THEN <<>>
    ELSE (IF list[n] \in set THEN <<>> ELSE << list[n] >>)
             \o Without(list, set, n + 1)

\* C22: after any sequence of record_execution calls the history holds at
\* most one row per script_name, is_script_executed is false exactly for
\* the scripts never recorded or whose most recent record is not a
\* success, and get_pending_scripts returns, in input order, exactly the
\* scripts for which is_script_executed is false.
C22_OneRowAndPendingInOrder ==
    /\ \A i, j \in DOMAIN migration_history :
           migration_history[i].script_name = migration_history[j].script_name
               => i = j
    /\ \A s \in ScriptNames :
           is_script_executed(migration_history, s) <=> MostRecentSucceeded(s)
    /\ trk_pc = "pending_returned" =>
           pending_scripts
               = Without(all_scripts,
                         { s \in ScriptNames : is_script_executed(migration_history, s) },
                         1)

\* script a succeeded and then failed, script b succeeded, script c was
\* never recorded, and get_pending_scripts(c, b, a) returned c, a
C22_Witness ==
    /\ trk_pc = "pending_returned"
    /\ executions = << [script_name |-> "a", success |-> TRUE],
                       [script_name |-> "a", success |-> FALSE],
                       [script_name |-> "b", success |-> TRUE] >>
    /\ Len(migration_history) = 2
    /\ all_scripts = <<"c", "b", "a">>
    /\ pending_scripts = <<"c", "a">>

(***************************************************************************)
(* The column definitions of migrate_tables_structure (main.py 391-426):   *)
(* the type and the DEFAULT clause a column of CREATE TABLE gets.  Texts   *)
(* the code takes apart are sequences of characters; a type is its name    *)
(* and the arguments in its parentheses.                                   *)
(***************************************************************************)
DATA_TYPE_MAP ==
    (<<"i","n","t">> :> "INTEGER")
    @@ (<<"b","i","g","i","n","t">> :> "BIGINT")
    @@ (<<"s","m","a","l","l","i","n","t">> :> "SMALLINT")
    @@ (<<"t","i","n","y","i","n","t">> :> "SMALLINT")
    @@ (<<"v","a","r","c","h","a","r">> :> "VARCHAR")
    @@ (<<"n","v","a","r","c","h","a","r">> :> "VARCHAR")
    @@ (<<"t","e","x","t">> :> "TEXT")
    @@ (<<"n","t","e","x","t">> :> "TEXT")
    @@ (<<"c","h","a","r">> :> "CHAR")
    @@ (<<"n","c","h","a","r">> :> "CHAR")
    @@ (<<"f","l","o","a","t">> :> "DOUBLE PRECISION")
    @@ (<<"r","e","a","l">> :> "REAL")
    @@ (<<"d","e","c","i","m","a","l">> :> "NUMERIC")
    @@ (<<"n","u","m","e","r","i","c">> :> "NUMERIC")
    @@ (<<"m","o","n","e","y">> :> "NUMERIC(19, 4)")
    @@ (<<"s","m","a","l","l","m","o","n","e","y">> :> "NUMERIC(10, 4)")
    @@ (<<"b","i","t">> :> "BOOLEAN")
    @@ (<<"d","a","t","e","t","i","m","e">> :> "TIMESTAMP")
    @@ (<<"d","a","t","e","t","i","m","e","2">> :> "TIMESTAMP")
    @@ (<<"s","m","a","l","l","d","a","t","e","t","i","m","e">> :> "TIMESTAMP")
    @@ (<<"d","a","t","e">> :> "DATE")
    @@ (<<"t","i","m","e">> :> "TIME")
    @@ (<<"u","n","i","q","u","e","i","d","e","n","t","i","f","i","e","r">> :> "UUID")
    @@ (<<"v","a","r","b","i","n","a","r","y">> :> "BYTEA")
    @@ (<<"b","i","n","a","r","y">> :> "BYTEA")
    @@ (<<"i","m","a","g","e">> :> "BYTEA")
    @@ (<<"x","m","l">> :> "XML")
    @@ (<<"t","i","m","e","s","t","a","m","p">> :> "BYTEA")

\* str.startswith(prefix)
StartsWith(s, prefix) ==
    Len(s) >= Len(prefix) /\ SubSeq(s, 1, Len(prefix)) = prefix

\* the type, DATA_TYPE_MAP.get(mssql_type, 'TEXT'), with its length or its
\* precision and scale (391-401)
SizedType(col) ==
    LET mssql_type == Lower(col.DATA_TYPE)
        mapped == IF mssql_type \in DOMAIN DATA_TYPE_MAP
                  THEN DATA_TYPE_MAP[mssql_type] ELSE "TEXT"
    IN  IF /\ \/ StartsWith(mssql_type, <<"n","v","a","r">>)
              \/ StartsWith(mssql_type, <<"v","a","r">>)
           /\ col.CHARACTER_MAXIMUM_LENGTH = -1
        THEN [name |-> "TEXT", args |-> <<>>]
        ELSE IF mssql_type \in {<<"v","a","r","c","h","a","r">>,
                                <<"n","v","a","r","c","h","a","r">>,
                                <<"c","h","a","r">>, <<"n","c","h","a","r">>}
                /\ col.CHARACTER_MAXIMUM_LENGTH # 0
        THEN [name |-> mapped, args |-> << col.CHARACTER_MAXIMUM_LENGTH >>]
        ELSE IF mssql_type \in {<<"d","e","c","i","m","a","l">>,
                                <<"n","u","m","e","r","i","c">>}
                /\ col.NUMERIC_PRECISION # 0
        THEN [name |-> mapped, args |-> << col.NUMERIC_PRECISION, col.NUMERIC_SCALE >>]
        ELSE [name |-> mapped, args |-> <<>>]

\* 'BIGSERIAL' if pg_type == 'BIGINT' else 'SERIAL' (403)
IdentityType(sized) ==
    [name |-> IF sized = [name |-> "BIGINT", args |-> <<>>] THEN "BIGSERIAL"
              ELSE "SERIAL",
     args |-> <<>>]

\* pg_type of a column (391-403)
ColumnType(col) ==
    IF col.IS_IDENTITY THEN IdentityType(SizedType(col)) ELSE SizedType(col)

\* str.strip('()'): the text without the parentheses at its ends
RECURSIVE StripParens(_)
StripParens(s) ==
    IF s = <<>> THEN s
    ELSE IF Head(s) \in {"(", ")"} THEN StripParens(Tail(s))
    ELSE IF s[Len(s)] \in {"(", ")"} THEN StripParens(SubSeq(s, 1, Len(s) - 1))
    ELSE s

\* only the opening parentheses and one closing parenthesis for each of
\* them are taken off
RECURSIVE StripWrapping(_)
StripWrapping(s) ==
    IF Len(s) >= 2 /\ Head(s) = "(" /\ s[Len(s)] = ")"
    THEN StripWrapping(SubSeq(s, 2, Len(s) - 1))
    ELSE s

\* str.isdigit: the digits and the superscript digits of Latin-1
IsDigits(s) ==
    /\ s # <<>>
    /\ \A i \in 1..Len(s) :
           \/ \E d \in 1..Len(Digits) : s[i] = Digits[d]
           \/ s[i] \in {"²", "³", "¹"}

\* part in s
Contains(s, part) ==
    \E i \in 1..(Len(s) - Len(part) + 1) : SubSeq(s, i, i + Len(part) - 1) = part

GetdateCall == <<"g","e","t","d","a","t","e","(",")">>
DefaultKeyword == <<"D","E","F","A","U","L","T"," ">>
DefaultNow == <<"D","E","F","A","U","L","T"," ","N","O","W","(",")">>

\* default_val of a column (407-423)
ColumnDefault(col) ==
    IF col.COLUMN_DEFAULT = <<>> \/ col.IS_IDENTITY THEN <<>>
    ELSE LET default_val_cleaned == StripParens(col.COLUMN_DEFAULT)
         IN  IF /\ default_val_cleaned # <<>>
                /\ Head(default_val_cleaned) = "'"
                /\ default_val_cleaned[Len(default_val_cleaned)] = "'"
             THEN DefaultKeyword \o default_val_cleaned
             ELSE IF IsDigits(RemoveChar(RemoveChar(default_val_cleaned, "."), "-"))
             THEN DefaultKeyword \o default_val_cleaned
             ELSE IF Contains(Lower(default_val_cleaned), GetdateCall)
             THEN DefaultNow
             ELSE <<>>

\* the numeric and the string literals the source columns have as defaults
NumericLiterals == { <<"1">>, <<"0">>, <<"-","1",".","5">> }
StringLiterals == { <<"'","f","o","o","'">>, <<"'","a",")","'">> }

Wrapped(s) == <<"(">> \o s \o <<")">>

GetdateDefault == Wrapped(GetdateCall)

\* defaults that are none of these: other functions, an expression around
\* getdate(), a Unicode string literal
OtherDefaults == { <<"(","n","e","w","i","d","(",")",")">>, <<"(","C","O","N","V","E","R","T","(","d","a","t","e",",","g","e","t","d","a","t","e","(",")",",","0",")",")">>, <<"(","N","'","f","o","o","'",")">> }

\* COLUMN_DEFAULT of the catalog: nothing, or the expression in parentheses
\* (a number in two pairs of them)
ColumnDefaults ==
    { <<>>, GetdateDefault }
        \cup { Wrapped(Wrapped(n)) : n \in NumericLiterals }
        \cup { Wrapped(s) : s \in StringLiterals }
        \cup OtherDefaults

\* the types of the source columns, with CHARACTER_MAXIMUM_LENGTH,
\* NUMERIC_PRECISION and NUMERIC_SCALE as the catalog gives them (NULL where
\* the type has none, -1 for varchar(max))
SourceType(t, length, precision, scale) ==
    [DATA_TYPE |-> t, CHARACTER_MAXIMUM_LENGTH |-> length,
     NUMERIC_PRECISION |-> precision, NUMERIC_SCALE |-> scale]

\* the names of the integer types
int == <<"i","n","t">>
bigint == <<"b","i","g","i","n","t">>
smallint == <<"s","m","a","l","l","i","n","t">>
tinyint == <<"t","i","n","y","i","n","t">>

IdentityTypes ==
    { SourceType(t, NULL, 10, 0) : t \in {int, bigint, smallint, tinyint} }
        \cup { SourceType(<<"d","e","c","i","m","a","l">>, NULL, 18, 0) }

\* the catalog writes the type names in lower case; INT and VarChar stand
\* for a row that spells them otherwise
SourceTypes ==
    IdentityTypes
        \cup { SourceType(<<"v","a","r","c","h","a","r">>, 50, NULL, NULL),
               SourceType(<<"n","v","a","r","c","h","a","r">>, -1, NULL, NULL),
               SourceType(<<"n","u","m","e","r","i","c">>, NULL, 10, 2),
               SourceType(<<"b","i","t">>, NULL, NULL, NULL),
               SourceType(<<"d","a","t","e","t","i","m","e">>, NULL, NULL, NULL),
               SourceType(<<"g","e","o","g","r","a","p","h","y">>, NULL, NULL, NULL),
               SourceType(<<"I","N","T">>, NULL, 10, 0),
               SourceType(<<"V","a","r","C","h","a","r">>, 50, NULL, NULL) }

SourceColumn(t, identity, nullable, default) ==
    [DATA_TYPE |-> t.DATA_TYPE,
     CHARACTER_MAXIMUM_LENGTH |-> t.CHARACTER_MAXIMUM_LENGTH,
     NUMERIC_PRECISION |-> t.NUMERIC_PRECISION, NUMERIC_SCALE |-> t.NUMERIC_SCALE,
     IS_IDENTITY |-> identity, IS_NULLABLE |-> nullable, COLUMN_DEFAULT |-> default]

\* an identity column has a type that allows it; SQL Server gives it no
\* default
SourceColumns ==
    { SourceColumn(t, FALSE, n, d) :
        t \in SourceTypes, n \in {"YES", "NO"}, d \in ColumnDefaults }
    \cup { SourceColumn(t, TRUE, "NO", <<>>) : t \in IdentityTypes }

DefInit ==
    /\ TrIdle
    /\ TsIdle
    /\ ColIdle
    /\ RunIdle
    /\ TsqlIdle
    /\ ViewIdle
    /\ ValIdle
    /\ ApiIdle
    /\ SeqIdle
    /\ TrkIdle
    /\ ConIdle
    /\ MetaIdle
    /\ TRANSLATION_DICT = <<>>
    /\ column_row \in SourceColumns
    /\ pg_type = <<>>
    /\ is_nullable = ""
    /\ default_val = <<>>
    /\ def_pc = "read"

\* one pass of the column loop of migrate_tables_structure
DefineColumn ==
    /\ def_pc = "read"
    /\ pg_type' = ColumnType(column_row)
    /\ is_nullable' = (IF column_row.IS_NULLABLE = "YES" THEN "NULL" ELSE "NOT NULL")
    /\ default_val' = ColumnDefault(column_row)
    /\ def_pc' = "defined"
    /\ UNCHANGED column_row
    /\ UNCHANGED notDef

DefNext == DefineColumn

SpecColumnDef == DefInit /\ [][DefNext]_vars

\* C23: an identity column is created with the auto-increment type of its
\* own integer width: smallint and tinyint with the small auto-increment
\* type, int with SERIAL, bigint with BIGSERIAL.
C23_IdentityTypeByWidth ==
    (def_pc = "defined" /\ column_row.IS_IDENTITY) =>
        /\ column_row.DATA_TYPE \in {smallint, tinyint} => pg_type.name = "SMALLSERIAL"
        /\ column_row.DATA_TYPE = int => pg_type.name = "SERIAL"
        /\ column_row.DATA_TYPE = bigint => pg_type.name = "BIGSERIAL"

\* C29: a default (getdate()) is created as DEFAULT NOW(); a numeric
\* literal and a quoted string literal are passed through without the
\* wrapping parentheses; any other default leaves the column without a
\* default; an identity column never gets a default.
C29_DefaultClause ==
    def_pc = "defined" =>
        LET d == column_row.COLUMN_DEFAULT
        IN  IF column_row.IS_IDENTITY \/ d = <<>> THEN default_val = <<>>
            ELSE IF d = GetdateDefault THEN default_val = DefaultNow
            ELSE IF \E n \in NumericLiterals : d = Wrapped(Wrapped(n))
                    \/ \E l \in StringLiterals : d = Wrapped(l)
            THEN default_val = DefaultKeyword \o StripWrapping(d)
            ELSE default_val = <<>>

(***************************************************************************)
(* The columns of constraints and indexes.  get_mssql_metadata stores a    *)
(* primary key, a unique constraint, a foreign key or an index with the    *)
(* translated names of its columns; migrate_tables_structure creates the   *)
(* table; migrate_constraints_and_indexes resolves each stored name to a   *)
(* column of the table, in the same way for the four kinds.  Columns are   *)
(* resolved one by one, so a constraint on one column is followed.         *)
(***************************************************************************)
MaxKeyColumns == 3    \* most columns of the table of the constraint

\* tables whose columns have different original names
KeyedTables ==
    { cols \in SeqsUpTo(ColumnNames, MaxKeyColumns) : cols # <<>> /\ Distinct(cols) }

ConInit ==
    /\ TrIdle
    /\ TsIdle
    /\ ColIdle
    /\ RunIdle
    /\ TsqlIdle
    /\ ViewIdle
    /\ ValIdle
    /\ ApiIdle
    /\ SeqIdle
    /\ TrkIdle
    /\ DefIdle
    /\ MetaIdle
    /\ TRANSLATION_DICT \in ColumnDictionaries
    /\ con_columns \in KeyedTables
    /\ declared_on \in 1..MaxKeyColumns
    /\ declared_on <= Len(con_columns)
    /\ con_definition = <<>>
    /\ con_created = <<>>
    /\ con_final = <<>>
    /\ con_pc = "source"

\* get_mssql_metadata reads the constraint
ReadConstraint ==
    /\ con_pc = "source"
    /\ con_definition' = DefinitionColumn(con_columns[declared_on])
    /\ con_pc' = "metadata"
    /\ UNCHANGED <<con_columns, declared_on, con_created, con_final>>
    /\ UNCHANGED notCon

\* migrate_tables_structure creates the table
CreateConstraintTable ==
    /\ con_pc = "metadata"
    /\ con_created' = StructureFinalNames(con_columns, {})
    /\ con_pc' = "created"
    /\ UNCHANGED <<con_columns, declared_on, con_definition, con_final>>
    /\ UNCHANGED notCon

\* migrate_constraints_and_indexes builds the statement of the constraint
AddConstraint ==
    /\ con_pc = "created"
    /\ con_final' = FinalColumn(con_definition, con_columns)
    /\ con_pc' = "added"
    /\ UNCHANGED <<con_columns, declared_on, con_definition, con_created>>
    /\ UNCHANGED notCon

ConNext == ReadConstraint \/ CreateConstraintTable \/ AddConstraint

SpecConstraints == ConInit /\ [][ConNext]_vars

\* C24: a column named in a primary-key, unique, foreign-key or index
\* definition is resolved, at constraint creation, to the final name table
\* creation gave to the source column the constraint was declared on, also
\* when several source columns share a translated base name.
C24_ConstraintOnDeclaredColumn ==
    con_pc = "added" => con_final = con_created[declared_on]

(***************************************************************************)
(* The Schema Model: get_mssql_metadata builds metadata['tables'] from the *)
(* rows of the catalog (main.py 166-186), main keeps the tables of the     *)
(* tables file (928-948) and migrate_tables_structure names the columns    *)
(* (370-389).  One schema is followed; a dictionary is the list of its     *)
(* items in insertion order.                                               *)
(***************************************************************************)
MaxSourceTables == 2    \* most base tables of the source schema

\* d[k] = v of a Python dictionary
DictSet(d, k, v) ==
    IF k \in DictKeysOf(d)
    THEN [i \in 1..Len(d) |-> IF d[i][1] = k THEN <<k, v>> ELSE d[i]]
    ELSE Append(d, <<k, v>>)

\* the position of the entry of a table key, or 0
EntryOf(tables, table_key) ==
    IF \E i \in 1..Len(tables) : tables[i].key = table_key
    THEN CHOOSE i \in 1..Len(tables) : tables[i].key = table_key
    ELSE 0

\* main.py 166-186 for one row of the table and column query
AddColumnRow(tables, table_name, column_name) ==
    LET table_key == translate_identifier(table_name)
        with_entry ==
            IF EntryOf(tables, table_key) = 0
            THEN Append(tables, [key |-> table_key, columns |-> <<>>,
                                 original_columns |-> <<>>])
            ELSE tables
        n == EntryOf(with_entry, table_key)
    IN  [with_entry EXCEPT
            ![n].original_columns =
                DictSet(@, translate_identifier(column_name), column_name),
            ![n].columns = Append(@, column_name)]

\* the rows of one source table, from column k on
RECURSIVE AddTableRows(_, _, _)
AddTableRows(tables, table, k) ==
    IF k > Len(table.columns) THEN tables
    ELSE AddTableRows(AddColumnRow(tables, table.name, table.columns[k]), table, k + 1)

\* the loop over the rows of the query, from source table n on
RECURSIVE ReadTables(_, _, _)
ReadTables(tables, source, n) ==
    IF n > Len(source) THEN tables
    ELSE ReadTables(AddTableRows(tables, source[n], 1), source, n + 1)

\* main.py 928-948: the tables of the tables file that metadata holds;
\* without a tables file all tables are kept
KeepTables(tables, tables_to_migrate) ==
    IF tables_to_migrate = <<>> THEN tables
    ELSE LET translated_tables_to_migrate ==
                 { translate_identifier(tables_to_migrate[i]) :
                     i \in 1..Len(tables_to_migrate) }
         IN  SelectSeq(tables, LAMBDA entry : entry.key \in translated_tables_to_migrate)

\* main.py 389: data['original_columns'][translated_col_name] =
\* col.COLUMN_NAME for the columns of a table from column k on
RECURSIVE RecordFinalNames(_, _, _, _)
RecordFinalNames(original_columns, cols, final_names, k) ==
    IF k > Len(cols) THEN original_columns
    ELSE RecordFinalNames(DictSet(original_columns, final_names[k], cols[k]),
                          cols, final_names, k + 1)

\* migrate_tables_structure on every table of the Schema Model
StructureTables(tables) ==
    [i \in 1..Len(tables) |->
        [tables[i] EXCEPT
            !.original_columns =
                RecordFinalNames(@, tables[i].columns,
                                 StructureFinalNames(tables[i].columns, {}), 1)]]

\* the identifiers of the source schema
SourceNames == { Name, <<"N","o","m">>, <<"N","a","a","m">> }

\* the column lists of a source table
SourceColumnLists ==
    { << Name >>, << <<"N","o","m">>, Name >>,
      << <<"N","o","m">>, <<"N","a","a","m">> >> }

\* the base tables of a schema have different names
SourceSchemas ==
    { t \in SeqsUpTo([name : SourceNames, columns : SourceColumnLists],
                     MaxSourceTables) :
        t # <<>> /\ \A i, j \in 1..Len(t) : t[i].name = t[j].name => i = j }

MetaInit ==
    /\ TrIdle
    /\ TsIdle
    /\ ColIdle
    /\ RunIdle
    /\ TsqlIdle
    /\ ViewIdle
    /\ ValIdle
    /\ ApiIdle
    /\ SeqIdle
    /\ TrkIdle
    /\ DefIdle
    /\ ConIdle
    /\ TRANSLATION_DICT \in ColumnDictionaries
    /\ source_tables \in SourceSchemas
    /\ TABLES_TO_MIGRATE \in {<<>>} \cup { <<t>> : t \in SourceNames }
    /\ metadata_tables = <<>>
    /\ returned_tables = <<>>
    /\ meta_pc = "catalog"

\* get_mssql_metadata returns the Schema Model
GetMssqlMetadata ==
    /\ meta_pc = "catalog"
    /\ metadata_tables' = ReadTables(<<>>, source_tables, 1)
    /\ returned_tables' = ReadTables(<<>>, source_tables, 1)
    /\ meta_pc' = "returned"
    /\ UNCHANGED <<source_tables, TABLES_TO_MIGRATE>>
    /\ UNCHANGED notMeta

\* main filters the tables; it returns when none is left
FilterTables ==
    /\ meta_pc = "returned"
    /\ metadata_tables' = KeepTables(metadata_tables, TABLES_TO_MIGRATE)
    /\ meta_pc' = "filtered"
    /\ UNCHANGED <<source_tables, TABLES_TO_MIGRATE, returned_tables>>
    /\ UNCHANGED notMeta

\* migrate_tables_structure creates the tables
MigrateTablesStructure ==
    /\ meta_pc = "filtered"
    /\ metadata_tables # <<>>
    /\ metadata_tables' = StructureTables(metadata_tables)
    /\ meta_pc' = "structured"
    /\ UNCHANGED <<source_tables, TABLES_TO_MIGRATE, returned_tables>>
    /\ UNCHANGED notMeta

MetaNext == GetMssqlMetadata \/ FilterTables \/ MigrateTablesStructure

SpecSchemaModel == MetaInit /\ [][MetaNext]_vars

\* two dictionaries hold the same keys with the same values
SameDict(d, e) ==
    /\ DictKeysOf(d) = DictKeysOf(e)
    /\ \A i \in 1..Len(d) : \A j \in 1..Len(e) : d[i][1] = e[j][1] => d[i][2] = e[j][2]

\* C27: once get_mssql_metadata has returned, no later phase changes the
\* Schema Model: the tables, their columns and their map from translated
\* to original column names are what get_mssql_metadata returned.
C27_SchemaModelUnchanged ==
    meta_pc \in {"filtered", "structured"} =>
        /\ Len(metadata_tables) = Len(returned_tables)
        /\ \A i \in 1..Len(metadata_tables) :
               /\ metadata_tables[i].key = returned_tables[i].key
               /\ metadata_tables[i].columns = returned_tables[i].columns
               /\ SameDict(metadata_tables[i].original_columns,
                           returned_tables[i].original_columns)

\* C28: for any two distinct source tables of the schema, also when their
\* names translate to the same identifier, the Schema Model holds two
\* table entries with distinct translated names, each holding only its own
\* columns.
C28_OneEntryPerSourceTable ==
    meta_pc = "returned" =>
        \A a, b \in 1..Len(source_tables) :
            a # b =>
                \E i, j \in 1..Len(metadata_tables) :
                    /\ metadata_tables[i].key # metadata_tables[j].key
                    /\ metadata_tables[i].columns = source_tables[a].columns
                    /\ metadata_tables[j].columns = source_tables[b].columns

====
